---- MODULE Spec2Model ----
(***************************************************************************)
(* Sprint / backlog grooming engine of PO_agent (src/main.py and its       *)
(* predecessor src/jira_scheduler.py): the ticket sort key, the rank       *)
(* sequencer, the sprint lifecycle, the capacity allocator and the roadmap *)
(* slotter, each as a state machine over the ticket store they read and    *)
(* write.  Every job starts from the common initial state and first reads  *)
(* a board drawn from a bounded set.                                       *)
(*                                                                         *)
(* Conventions.  A ticket or sprint key is a positive integer and 0 stands *)
(* for "no key" (Python's "" or None).  A nullable number (story points, a *)
(* RICE factor) is the empty set when it is unset and the singleton {v}    *)
(* when it holds v.  A date is a day number.  A rational is a pair         *)
(* <<numerator, denominator>> with a positive denominator.                 *)
(***************************************************************************)
EXTENDS Integers, Sequences, FiniteSets, TLC

VARIABLES
    pc,                 \* position of the job that is running
    tickets,            \* store: the delivery tickets, a sequence of records
    sprints,            \* store: the sprints, a sequence of records
    ideas,              \* store: the scored roadmap ideas, a sequence of records
    rankList,           \* store: the global rank order, a sequence of ticket keys
    EPIC_ROADMAP_RANK,  \* main.py:67, epic key -> <<col_rank, rice_value>>
    backlog,            \* run(): the sorted ready backlog
    keys,               \* rank_issues(): the sorted keys
    idx,                \* loop index of the running job
    cmds,               \* the mutating commands issued so far, in order
    today,              \* manage_sprint_lifecycle(): today in Sydney
    active,             \* manage_sprint_lifecycle(): the active sprints read first
    carryover,          \* manage_sprint_lifecycle(): the carry-over list
    ns,                 \* manage_sprint_lifecycle(): the sprint started (0: none)
    future_sprints,     \* run(): the future sprints the allocator walks
    sprint_pos,         \* run(): position of the allocator in future_sprints
    avail,              \* run(): points left in the sprint being filled
    slot_issues,        \* prioritise_*_ideas(): issues, the ideas sorted by RICE value
    col,                \* prioritise_*_ideas(): position in ROADMAP_COLUMNS
    assigned,           \* prioritise_*_ideas(): ideas given to the column so far
    last_end,           \* ensure_sprint_runway(): end date of the latest sprint
    run_no,             \* the passes of run() completed so far
    rank_pos            \* run(): position of JOB 3 and JOB 4 in the lists to rank

vars == <<pc, tickets, sprints, ideas, rankList, EPIC_ROADMAP_RANK,
          backlog, keys, idx, cmds, today, active, carryover, ns,
          future_sprints, sprint_pos, avail, slot_issues, col, assigned,
          last_end, run_no, rank_pos>>

lifeVars == <<today, active, carryover, ns>>
allocVars == <<future_sprints, sprint_pos, avail>>
slotVars == <<slot_issues, col, assigned>>
runVars == <<last_end>>
passVars == <<run_no, rank_pos>>

(***************************************************************************)
(* Bounds of the model.                                                    *)
(***************************************************************************)
MaxIdeas == 2
MaxSortTickets == 2
MaxRankTickets == 3
MaxLifeSprints == 3
MaxLifeTickets == 2
MaxAllocSprints == 2
MaxAllocTickets == 3
MaxSlotItems == 35
MaxSlotRejections == 1
MaxRunwaySprints == 9
MaxPasses == 3
MaxPassCreates == 1
MaxPassTickets == 2
MaxFaultyPasses == 2
MaxScheduleDays == 3
PassesPerDay == 2
MaxOrderIdeas == 4
MaxLaneIdeas == 2

(***************************************************************************)
(* Generic helpers.                                                        *)
(***************************************************************************)
SeqsUpTo(S, n) == UNION {[1..k -> S] : k \in 0..n}

Range(s) == {s[i] : i \in DOMAIN s}

\* dict.get(name): the empty set when the record has no such field.
Get(rec, name) == IF name \in DOMAIN rec THEN rec[name] ELSE {}

\* Python's "x or d" on a nullable number: None and 0 are both falsy.
OrElse(opt, d) ==
    IF opt = {} THEN d
    ELSE LET v == CHOOSE x \in opt : TRUE IN IF v = 0 THEN d ELSE v

\* A JSON issue as the store returns it for a "fields=" request: the key and
\* only the requested fields.
Project(rec, fields) == [f \in (fields \cup {"key"}) \cap DOMAIN rec |-> rec[f]]

\* Rationals as <<num, den>>, den > 0.
Rat(n, d) == IF d < 0 THEN <<0 - n, 0 - d>> ELSE <<n, d>>
RatNeg(q) == <<0 - q[1], q[2]>>
RatLess(p, q) == p[1] * q[2] < q[1] * p[2]
RatEq(p, q) == p[1] * q[2] = q[1] * p[2]

\* list.sort(key=...): a stable sort.  before is the set of pairs <<i, j>>
\* of input positions with key(s[i]) < key(s[j]); the element at position i
\* lands after every element that is before it and after every earlier
\* element that ties with it.
SortPos(s, i, before) ==
    1 + Cardinality({j \in DOMAIN s :
                        \/ <<j, i>> \in before
                        \/ (j < i /\ <<i, j>> \notin before)})

StableSort(s, before) ==
    [r \in DOMAIN s |-> s[CHOOSE i \in DOMAIN s : SortPos(s, i, before) = r]]

(***************************************************************************)
(* Configuration (main.py:24-63).                                          *)
(***************************************************************************)
MAX_SPRINT_POINTS == 40
PRIORITY_ORDER ==
    [p \in {"Highest", "High", "Medium", "Low", "Lowest"} |->
        CASE p = "Highest" -> 1 [] p = "High" -> 2 [] p = "Medium" -> 3
          [] p = "Low" -> 4 [] p = "Lowest" -> 5]
\* Mutant: only Done counts as completed.
COMPLETED_STATUSES_done_only == {"done"}
COMPLETED_STATUSES == {"done", "released"}
ROADMAP_COLUMNS ==
    <<10232, 10233, 10269, 10529, 10530, 10531, 10538, 10539, 10540, 10537, 10541>>
ROADMAP_BACKLOG_ID == 10536
ROADMAP_SHIPPED_ID == 10234
IDEAS_PER_COLUMN == 3

\* COLUMN_RANK.get(col_id, 999): the column's index, 999 for the Backlog
\* bucket and for every other value (Shipped, Done, no column).
ColumnRankGet(col_id) ==
    IF \E i \in DOMAIN ROADMAP_COLUMNS : ROADMAP_COLUMNS[i] = col_id
    THEN (CHOOSE i \in DOMAIN ROADMAP_COLUMNS : ROADMAP_COLUMNS[i] = col_id) - 1
    ELSE 999

\* PRIORITY_ORDER.get(name, 999)
PriorityGet(name) ==
    IF name \in DOMAIN PRIORITY_ORDER THEN PRIORITY_ORDER[name] ELSE 999

(***************************************************************************)
(* RICE value: (r * i * c) / e with each unset or zero factor read as 1.   *)
(***************************************************************************)
RiceValue(f) ==
    LET r == OrElse(Get(f, "reach"), 1)
        i == OrElse(Get(f, "impact"), 1)
        c == OrElse(Get(f, "confidence"), 1)
        e == OrElse(Get(f, "effort"), 1)
    IN Rat(r * i * c, e)

(***************************************************************************)
(* _roadmap_sort_key (main.py:184-197): the tuple (col_rank, -rice_value,  *)
(* priority ordinal), or (500, 0, priority ordinal) for a ticket whose     *)
(* epic has no entry in EPIC_ROADMAP_RANK.  The epic is the ticket itself  *)
(* when the fetched issue carries issuetype Epic, its parent otherwise.    *)
(***************************************************************************)
EpicKeyOf(issue) ==
    IF "issuetype" \in DOMAIN issue /\ issue.issuetype = "Epic"
    THEN issue.key
    ELSE IF "parent" \in DOMAIN issue THEN issue.parent ELSE 0

PriorityName(issue) == IF "priority" \in DOMAIN issue THEN issue.priority ELSE ""

\* Mutant: the RICE value is not negated, so a larger value sorts later.
roadmap_sort_key_rice_ascending(issue, rankMap) ==
    LET epic_key == EpicKeyOf(issue)
        pri == PriorityGet(PriorityName(issue))
    IN IF epic_key # 0 /\ epic_key \in DOMAIN rankMap
       THEN <<rankMap[epic_key][1], rankMap[epic_key][2], pri>>
       ELSE <<500, <<0, 1>>, pri>>

roadmap_sort_key(issue, rankMap) ==
    LET epic_key == EpicKeyOf(issue)
        pri == PriorityGet(PriorityName(issue))
    IN IF epic_key # 0 /\ epic_key \in DOMAIN rankMap
       THEN <<rankMap[epic_key][1], RatNeg(rankMap[epic_key][2]), pri>>
       ELSE <<500, <<0, 1>>, pri>>

\* Python's tuple comparison of two sort keys.
KeyLess(k1, k2) ==
    \/ k1[1] < k2[1]
    \/ k1[1] = k2[1] /\ RatLess(k1[2], k2[2])
    \/ k1[1] = k2[1] /\ RatEq(k1[2], k2[2]) /\ k1[3] < k2[3]

\* The comparison the sorts use, under the current cache.
TicketBefore(a, b) ==
    KeyLess(roadmap_sort_key(a, EPIC_ROADMAP_RANK), roadmap_sort_key(b, EPIC_ROADMAP_RANK))

(***************************************************************************)
(* Initial state: nothing read yet, the cache empty (main.py:67).          *)
(***************************************************************************)
EmptyMap == [k \in {} |-> <<0, <<0, 1>>>>]

Init ==
    /\ pc = "start"
    /\ tickets = <<>>
    /\ sprints = <<>>
    /\ ideas = <<>>
    /\ rankList = <<>>
    /\ EPIC_ROADMAP_RANK = EmptyMap
    /\ backlog = <<>>
    /\ keys = <<>>
    /\ idx = 0
    /\ cmds = <<>>
    /\ today = 0
    /\ active = <<>>
    /\ carryover = <<>>
    /\ ns = 0
    /\ future_sprints = <<>>
    /\ sprint_pos = 0
    /\ avail = 0
    /\ slot_issues = <<>>
    /\ col = 0
    /\ assigned = 0
    /\ last_end = 0
    /\ run_no = 0
    /\ rank_pos = 0

(***************************************************************************)
(* JOB 15, cache step, then the backlog sort.                              *)
(***************************************************************************)
EpicKeys == {101, 102}

\* The scored ideas the store can hold: a roadmap column (first column,
\* second column, Backlog bucket, Shipped), RICE factors, and the delivery
\* epic get_idea_delivery_epic finds among the links (0: none).
SortIdeaChoices ==
    [roadmap : {10232, 10233, ROADMAP_BACKLOG_ID, ROADMAP_SHIPPED_ID},
     reach : {{2}, {3}}, impact : {{1}}, confidence : {{1}}, effort : {{2}},
     epic : EpicKeys \cup {0}]

\* main.py:3018-3030: the cache is cleared and refilled in list order, a
\* later idea of the same epic overwriting an earlier one.
EpicRankOf(is) ==
    LET linked == {is[i].epic : i \in DOMAIN is} \ {0}
        last(k) == CHOOSE i \in DOMAIN is :
                      /\ is[i].epic = k
                      /\ \A j \in DOMAIN is : is[j].epic = k => j <= i
    IN [k \in linked |->
          <<ColumnRankGet(is[last(k)].roadmap), RiceValue(is[last(k)])>>]

\* process_strategic_pipeline, cache step (main.py:3014-3031): all_ideas is
\* the re-fetched list of scored ideas, local to the step.
BuildEpicRoadmapRank ==
    /\ pc = "start"
    /\ \E n \in 0..MaxIdeas : \E is \in [1..n -> SortIdeaChoices] :
          EPIC_ROADMAP_RANK' = EpicRankOf([i \in 1..n |-> [key |-> 200 + i] @@ is[i]])
    /\ pc' = "cached"
    /\ UNCHANGED <<tickets, sprints, ideas, rankList, backlog, keys, idx, cmds,
                 lifeVars, allocVars, slotVars, runVars, passVars>>

\* The ready backlog the store can hold: each ticket has a parent epic or
\* none and a priority name ("" stands for a priority PRIORITY_ORDER does not
\* know).
SortTicketChoices ==
    [issuetype : {"Task"}, parent : EpicKeys \cup {0},
     priority : {"Highest", "Low", ""},
     status : {"Ready"}, sprint : {0}, customfield_10016 : {{5}}]

BacklogFields == {"summary", "priority", "parent", "customfield_10016"}

\* get_andrej_ready_backlog (main.py:170-174): fetch, then sort by the key.
SortByRoadmapKey(issues) ==
    StableSort(issues, {p \in (DOMAIN issues) \X (DOMAIN issues) :
                           TicketBefore(issues[p[1]], issues[p[2]])})

SortedBacklog(ts) ==
    SortByRoadmapKey([i \in DOMAIN ts |-> Project(ts[i], BacklogFields)])

GetReadyBacklogSorted ==
    /\ pc = "cached"
    /\ \E n \in 0..MaxSortTickets : \E ts \in [1..n -> SortTicketChoices] :
          /\ tickets' = [i \in 1..n |-> [key |-> i] @@ ts[i]]
          /\ backlog' = SortedBacklog(tickets')
    /\ pc' = "sorted"
    /\ UNCHANGED <<sprints, ideas, rankList, EPIC_ROADMAP_RANK, keys, idx, cmds,
                 lifeVars, allocVars, slotVars, runVars, passVars>>

NextSort == BuildEpicRoadmapRank \/ GetReadyBacklogSorted

SpecSort == Init /\ [][NextSort]_vars

(***************************************************************************)
(* rank_issues (main.py:200-211, jira_scheduler.py:67-77).                 *)
(***************************************************************************)
Perms(S) == {f \in [1..Cardinality(S) -> S] : \A i, j \in DOMAIN f : f[i] = f[j] => i = j}

IndexOf(list, k) == CHOOSE i \in DOMAIN list : list[i] = k

Without(list, k) == SelectSeq(list, LAMBDA x : x # k)

\* Mutant: the ticket is placed right after the anchor.
RankAfter(list, k, anchor) ==
    LET rest == Without(list, k)
        pos == IndexOf(rest, anchor)
    IN SubSeq(rest, 1, pos) \o <<k>> \o SubSeq(rest, pos + 1, Len(rest))

\* PUT /rest/agile/1.0/issue/rank {issues: [k], rankBeforeIssue: anchor},
\* accepted: k is taken out and placed immediately before the anchor.
RankBefore(list, k, anchor) ==
    LET rest == Without(list, k)
        pos == IndexOf(rest, anchor)
    IN SubSeq(rest, 1, pos - 1) \o <<k>> \o SubSeq(rest, pos, Len(rest))

\* The board a ranking pass can meet: tickets in sprint 1 or in none, with
\* a priority, in any global rank order.
RankTicketChoices ==
    [issuetype : {"Task"}, parent : {0}, priority : {"High", "Low"},
     status : {"To Do"}, sprint : {0, 1}, customfield_10016 : {{5}}]

BoardForRank ==
    /\ pc = "start"
    /\ \E n \in 0..MaxRankTickets : \E ts \in [1..n -> RankTicketChoices] :
          /\ tickets' = [i \in 1..n |-> [key |-> i] @@ ts[i]]
          /\ rankList' \in Perms(1..n)
    /\ pc' = "board"
    /\ UNCHANGED <<sprints, ideas, EPIC_ROADMAP_RANK, backlog, keys, idx, cmds,
                 lifeVars, allocVars, slotVars, runVars, passVars>>

SprintIssueFields == {"summary", "priority", "status", "parent"}

\* get_sprint_issues (main.py:164-165): the sprint's tickets with the
\* requested fields only, here in store order.
get_sprint_issues(sid) ==
    LET members == SelectSeq(tickets, LAMBDA t : t.sprint = sid)
    IN [i \in DOMAIN members |-> Project(members[i], SprintIssueFields)]

\* The orders in which the store may return them.
SprintIssueLists(sid) ==
    LET l == get_sprint_issues(sid)
    IN {[r \in DOMAIN l |-> l[o[r]]] : o \in Perms(DOMAIN l)}

\* rank_issues up to the loop: fewer than two issues return at once; the
\* others are sorted by the roadmap key and the loop starts at len - 2.
RankIssuesBeginAt(at, lists) ==
    /\ pc = at
    /\ \E issues \in lists :
          IF Len(issues) < 2
          THEN /\ pc' = "ranked"
               /\ UNCHANGED <<keys, idx,
                 lifeVars, allocVars, slotVars, runVars, passVars>>
          ELSE /\ keys' = [i \in DOMAIN issues |-> SortByRoadmapKey(issues)[i].key]
               /\ idx' = Len(issues) - 2
               /\ pc' = "ranking"
    /\ UNCHANGED <<tickets, sprints, ideas, rankList, EPIC_ROADMAP_RANK, backlog, cmds,
                 lifeVars, allocVars, slotVars, runVars, passVars>>

\* rank_issues called on the tickets of sprint 1.
RankIssuesBegin == RankIssuesBeginAt("board", SprintIssueLists(1))

\* Mutant: the two keys of the move change places.
RankCmd_swapped(ok) == [op |-> "rank", issue |-> keys[idx + 2], before |-> keys[idx + 1], ok |-> ok]

RankCmd(ok) == [op |-> "rank", issue |-> keys[idx + 1], before |-> keys[idx + 2], ok |-> ok]

\* One turn of the loop (idx is 0-based as in the source), the store
\* accepting the move.
RankMoveAccepted ==
    /\ pc = "ranking" /\ idx >= 0
    /\ rankList' = RankBefore(rankList, keys[idx + 1], keys[idx + 2])
    /\ cmds' = Append(cmds, RankCmd(TRUE))
    /\ idx' = idx - 1
    /\ UNCHANGED <<pc, tickets, sprints, ideas, EPIC_ROADMAP_RANK, backlog, keys,
                 lifeVars, allocVars, slotVars, runVars, passVars>>

\* Mutant: a rejected move ends the loop.
RankMoveRejected_stops ==
    /\ pc = "ranking" /\ idx >= 0
    /\ cmds' = Append(cmds, RankCmd(FALSE))
    /\ idx' = -1
    /\ UNCHANGED <<pc, tickets, sprints, ideas, rankList, EPIC_ROADMAP_RANK, backlog, keys,
                 lifeVars, allocVars, slotVars, runVars, passVars>>

\* One turn of the loop, the store rejecting the move: a warning is logged.
RankMoveRejected ==
    /\ pc = "ranking" /\ idx >= 0
    /\ cmds' = Append(cmds, RankCmd(FALSE))
    /\ idx' = idx - 1
    /\ UNCHANGED <<pc, tickets, sprints, ideas, rankList, EPIC_ROADMAP_RANK, backlog, keys,
                 lifeVars, allocVars, slotVars, runVars, passVars>>

RankIssuesEnd ==
    /\ pc = "ranking" /\ idx < 0
    /\ pc' = "ranked"
    /\ UNCHANGED <<tickets, sprints, ideas, rankList, EPIC_ROADMAP_RANK, backlog, keys, idx, cmds,
                 lifeVars, allocVars, slotVars, runVars, passVars>>

NextRank ==
    BoardForRank \/ RankIssuesBegin \/ RankMoveAccepted \/ RankMoveRejected \/ RankIssuesEnd

SpecRank == Init /\ [][NextRank]_vars

(***************************************************************************)
(* JOB 0: manage_sprint_lifecycle (main.py:239-264).                       *)
(***************************************************************************)
\* str.lower() on the status names of the board.
Lower(name) ==
    CASE name = "Done" -> "done"
      [] name = "Released" -> "released"
      [] name = "In Progress" -> "in progress"
      [] name = "To Do" -> "to do"
      [] name = "Ready" -> "ready"
      [] OTHER -> name

\* The sprints a lifecycle pass can meet: active ones ending yesterday,
\* today or tomorrow, future ones starting in two or three days; today is
\* day 10.
LifeSprintChoices ==
    {[state |-> "active", startDate |-> e - 13, endDate |-> e] : e \in {9, 10, 11}}
    \cup {[state |-> "future", startDate |-> b, endDate |-> b + 13] : b \in {12, 13}}

LifeTicketChoices(nSprints) ==
    [issuetype : {"Task"}, parent : {0}, priority : {"Medium"},
     status : {"In Progress", "Done", "Released"},
     sprint : {1, 2} \cap (1..nSprints), customfield_10016 : {{5}}]

BoardForLifecycle ==
    /\ pc = "start"
    /\ \E n \in 0..MaxLifeSprints : \E ss \in [1..n -> LifeSprintChoices] :
          sprints' = [i \in 1..n |-> [id |-> i] @@ ss[i]]
    /\ \E m \in 0..MaxLifeTickets : \E ts \in [1..m -> LifeTicketChoices(Len(sprints'))] :
          tickets' = [i \in 1..m |-> [key |-> i] @@ ts[i]]
    /\ today' = 10
    /\ pc' = "board"
    /\ UNCHANGED <<ideas, rankList, EPIC_ROADMAP_RANK, backlog, keys, idx, cmds,
                   active, carryover, ns, allocVars, slotVars, runVars, passVars>>

\* The positions of s that satisfy Test, in order (a list comprehension).
SprintsInState(state) ==
    SelectSeq(sprints, LAMBDA sp : sp.state = state)

\* Mutant: every sprint that is not closed counts as active.
get_active_sprint_not_closed == SelectSeq(sprints, LAMBDA sp : sp.state # "closed")

\* get_active_sprint (main.py:156-157): the active sprints, in store order.
get_active_sprint == SprintsInState("active")

\* Mutant: the future sprints in store order, unsorted.
get_future_sprints_unsorted == SprintsInState("future")

\* get_future_sprints (main.py:159-162): sorted by start date.
get_future_sprints ==
    LET fs == SprintsInState("future")
    IN StableSort(fs, {p \in (DOMAIN fs) \X (DOMAIN fs) :
                          fs[p[1]].startDate < fs[p[2]].startDate})

\* Mutant: a sprint ending today is not yet over.
Expired_strictly_before(end, day) == end < day

\* main.py:245: end <= today.
Expired(end, day) == end <= day

\* get_incomplete_issues (main.py:234-235): the keys of the sprint's tickets
\* whose lower-cased status is not a completed one, in store order.
get_incomplete_issues(sid) ==
    LET inc == SelectSeq(tickets, LAMBDA t :
                   t.sprint = sid /\ Lower(t.status) \notin COMPLETED_STATUSES)
    IN [i \in DOMAIN inc |-> inc[i].key]

SetSprintState(sid, state) == [sprints EXCEPT ![sid].state = state]

\* main.py:240-243: today, the empty carry-over, the first read of the
\* active sprints.
LifecycleBeginAt(at) ==
    /\ pc = at
    /\ active' = get_active_sprint
    /\ carryover' = <<>>
    /\ idx' = 1
    /\ pc' = "closing"
    /\ UNCHANGED <<tickets, sprints, ideas, rankList, EPIC_ROADMAP_RANK, backlog,
                   keys, cmds, today, ns, allocVars, slotVars, runVars, passVars>>

LifecycleBegin == LifecycleBeginAt("board")

\* main.py:244-251: an active sprint that is over; its incomplete tickets
\* join the carry-over and the store accepts the close.
CloseSprintAccepted ==
    /\ pc = "closing" /\ idx <= Len(active)
    /\ Expired(active[idx].endDate, today)
    /\ carryover' = carryover \o get_incomplete_issues(active[idx].id)
    /\ sprints' = SetSprintState(active[idx].id, "closed")
    /\ cmds' = Append(cmds, [op |-> "close", sprint |-> active[idx].id, ok |-> TRUE])
    /\ idx' = idx + 1
    /\ UNCHANGED <<pc, tickets, ideas, rankList, EPIC_ROADMAP_RANK, backlog, keys,
                   today, active, ns, allocVars, slotVars, runVars, passVars>>

\* main.py:244-253: the same, the store rejecting the close.
CloseSprintRejected ==
    /\ pc = "closing" /\ idx <= Len(active)
    /\ Expired(active[idx].endDate, today)
    /\ carryover' = carryover \o get_incomplete_issues(active[idx].id)
    /\ cmds' = Append(cmds, [op |-> "close", sprint |-> active[idx].id, ok |-> FALSE])
    /\ idx' = idx + 1
    /\ UNCHANGED <<pc, tickets, sprints, ideas, rankList, EPIC_ROADMAP_RANK, backlog,
                   keys, today, active, ns, allocVars, slotVars, runVars, passVars>>

\* main.py:245: an active sprint that ends after today is left alone.
KeepSprint ==
    /\ pc = "closing" /\ idx <= Len(active)
    /\ ~Expired(active[idx].endDate, today)
    /\ idx' = idx + 1
    /\ UNCHANGED <<pc, tickets, sprints, ideas, rankList, EPIC_ROADMAP_RANK, backlog,
                   keys, cmds, today, active, carryover, ns, allocVars, slotVars, runVars, passVars>>

\* Mutant: the next sprint is started whatever the second read shows.
NoActiveSprint_unchecked == TRUE

\* main.py:254: not get_active_sprint(), a second read of the store.
NoActiveSprint == get_active_sprint = <<>>

\* main.py:254-256: a sprint is still active, or no future sprint exists.
LifecycleNoStart ==
    /\ pc = "closing" /\ idx > Len(active)
    /\ ~NoActiveSprint \/ get_future_sprints = <<>>
    /\ pc' = "lifecycle_done"
    /\ UNCHANGED <<tickets, sprints, ideas, rankList, EPIC_ROADMAP_RANK, backlog,
                   keys, idx, cmds, lifeVars, allocVars, slotVars, runVars, passVars>>

StartCmd(sp, ok) ==
    [op |-> "start", sprint |-> sp.id, startDate |-> sp.startDate,
     endDate |-> sp.endDate, ok |-> ok]

\* main.py:254-259 with start_sprint (230-232): no sprint is active, the
\* first future sprint is posted as active with its own dates, accepted.
StartSprintAccepted ==
    /\ pc = "closing" /\ idx > Len(active)
    /\ NoActiveSprint /\ get_future_sprints # <<>>
    /\ LET sp == get_future_sprints[1]
       IN /\ sprints' = [sprints EXCEPT ![sp.id] =
                            [@ EXCEPT !.state = "active", !.startDate = sp.startDate,
                                      !.endDate = sp.endDate]]
          /\ cmds' = Append(cmds, StartCmd(sp, TRUE))
          /\ ns' = sp.id
    /\ idx' = 1
    /\ pc' = "carrying"
    /\ UNCHANGED <<tickets, ideas, rankList, EPIC_ROADMAP_RANK, backlog, keys,
                   today, active, carryover, allocVars, slotVars, runVars, passVars>>

\* main.py:258/263-264: the store rejects the start; nothing is carried.
StartSprintRejected ==
    /\ pc = "closing" /\ idx > Len(active)
    /\ NoActiveSprint /\ get_future_sprints # <<>>
    /\ cmds' = Append(cmds, StartCmd(get_future_sprints[1], FALSE))
    /\ pc' = "lifecycle_done"
    /\ UNCHANGED <<tickets, sprints, ideas, rankList, EPIC_ROADMAP_RANK, backlog,
                   keys, idx, lifeVars, allocVars, slotVars, runVars, passVars>>

MoveCmd(key, sid, ok) == [op |-> "move", issue |-> key, sprint |-> sid, ok |-> ok]

\* move_issue_to_sprint (main.py:179-181), accepted by the store.
MoveIssue(key, sid) == [tickets EXCEPT ![key].sprint = sid]

\* main.py:260-262: one carried-over ticket moved to the started sprint.
CarryAccepted ==
    /\ pc = "carrying" /\ idx <= Len(carryover)
    /\ tickets' = MoveIssue(carryover[idx], ns)
    /\ cmds' = Append(cmds, MoveCmd(carryover[idx], ns, TRUE))
    /\ idx' = idx + 1
    /\ UNCHANGED <<pc, sprints, ideas, rankList, EPIC_ROADMAP_RANK, backlog, keys,
                   lifeVars, allocVars, slotVars, runVars, passVars>>

\* main.py:261: the store rejects the move; the loop goes on.
CarryRejected ==
    /\ pc = "carrying" /\ idx <= Len(carryover)
    /\ cmds' = Append(cmds, MoveCmd(carryover[idx], ns, FALSE))
    /\ idx' = idx + 1
    /\ UNCHANGED <<pc, tickets, sprints, ideas, rankList, EPIC_ROADMAP_RANK, backlog,
                   keys, lifeVars, allocVars, slotVars, runVars, passVars>>

CarryEnd ==
    /\ pc = "carrying" /\ idx > Len(carryover)
    /\ pc' = "lifecycle_done"
    /\ UNCHANGED <<tickets, sprints, ideas, rankList, EPIC_ROADMAP_RANK, backlog,
                   keys, idx, cmds, lifeVars, allocVars, slotVars, runVars, passVars>>

NextLife ==
    \/ BoardForLifecycle
    \/ LifecycleBegin
    \/ CloseSprintAccepted
    \/ CloseSprintRejected
    \/ KeepSprint
    \/ LifecycleNoStart
    \/ StartSprintAccepted
    \/ StartSprintRejected
    \/ CarryAccepted
    \/ CarryRejected
    \/ CarryEnd

SpecLife == Init /\ [][NextLife]_vars

(***************************************************************************)
(* Passes of JOB 0 one after the other, as the scheduler calls run() again *)
(* (main.py:3801-3807, 3845) on the same day or on the next one.           *)
(***************************************************************************)
\* The sprints a sequence of passes can meet on day 10: active ones ending
\* today or tomorrow, future ones starting tomorrow, and future ones that
\* were never started and whose dates have run out today.
LifePassSprintChoices ==
    {[state |-> "active", startDate |-> e - 13, endDate |-> e] : e \in {10, 11}}
    \cup {[state |-> "future", startDate |-> b, endDate |-> b + 13] : b \in {-3, 11}}

BoardForLifecyclePasses ==
    /\ pc = "start"
    /\ \E n \in 0..MaxLifeSprints : \E ss \in [1..n -> LifePassSprintChoices] :
          sprints' = [i \in 1..n |-> [id |-> i] @@ ss[i]]
    /\ \E ts \in SUBSET {1} :
          tickets' = [i \in (ts \cap DOMAIN sprints') |->
                        [key |-> i, issuetype |-> "Task", parent |-> 0,
                         priority |-> "Medium", status |-> "In Progress", sprint |-> 1,
                         customfield_10016 |-> {5}]]
    /\ today' = 10
    /\ pc' = "board"
    /\ UNCHANGED <<ideas, rankList, EPIC_ROADMAP_RANK, backlog, keys, idx, cmds,
                   active, carryover, ns, allocVars, slotVars, runVars, passVars>>

\* The next pass: today is read again (main.py:241), the same day or the
\* day after.
RunLifecycleAgain ==
    /\ pc = "lifecycle_done"
    /\ run_no + 1 < MaxPasses
    /\ run_no' = run_no + 1
    /\ today' \in {today, today + 1}
    /\ pc' = "board"
    /\ UNCHANGED <<tickets, sprints, ideas, rankList, EPIC_ROADMAP_RANK, backlog, keys,
                   idx, cmds, active, carryover, ns, allocVars, slotVars, runVars,
                   rank_pos>>

NextLifePasses ==
    \/ BoardForLifecyclePasses
    \/ LifecycleBegin
    \/ CloseSprintAccepted
    \/ CloseSprintRejected
    \/ KeepSprint
    \/ LifecycleNoStart
    \/ StartSprintAccepted
    \/ StartSprintRejected
    \/ CarryAccepted
    \/ CarryRejected
    \/ CarryEnd
    \/ RunLifecycleAgain

SpecLifePasses == Init /\ [][NextLifePasses]_vars

(***************************************************************************)
(* JOB 2: the capacity allocator of run() (main.py:3734-3759,              *)
(* jira_scheduler.py:122-149).                                             *)
(***************************************************************************)
RECURSIVE SumPoints(_)
\* sum((i["fields"].get(STORY_POINTS_FIELD) or 0) for i in ...)
SumPoints(list) ==
    IF list = <<>> THEN 0
    ELSE OrElse(Get(Head(list), "customfield_10016"), 0) + SumPoints(Tail(list))

\* get_sprint_todo_points (main.py:167-168): the story points of the issues
\* get_sprint_issues returns whose status is To Do.  get_sprint_issues asks
\* the store for summary, priority, status and parent only, so the issues
\* carry no story points field and each counts as 0.
get_sprint_todo_points(sid) ==
    SumPoints(SelectSeq(get_sprint_issues(sid), LAMBDA i : i.status = "To Do"))

\* The board an allocation can meet: ready backlog tickets of 0, 10 or 30
\* points, To Do tickets of 30 points already in a future sprint, a ticket
\* in progress in the first sprint.
AllocTicketChoices(nSprints) ==
    [issuetype : {"Task"}, parent : {0}, priority : {"High", "Low"},
     status : {"Ready"}, sprint : {0}, customfield_10016 : {{0}, {10}, {30}}]
    \cup [issuetype : {"Task"}, parent : {0}, priority : {"Medium"},
          status : {"To Do"}, sprint : 1..nSprints, customfield_10016 : {{30}}]
    \cup [issuetype : {"Task"}, parent : {0}, priority : {"Medium"},
          status : {"In Progress"}, sprint : {1} \cap (1..nSprints),
          customfield_10016 : {{30}}]

BoardForAllocation ==
    /\ pc = "start"
    /\ \E n \in 0..MaxAllocSprints :
          sprints' = [i \in 1..n |->
                        [id |-> i, state |-> "future", startDate |-> 21 * i,
                         endDate |-> 21 * i + 13]]
    /\ \E m \in 0..MaxAllocTickets : \E ts \in [1..m -> AllocTicketChoices(Len(sprints'))] :
          tickets' = [i \in 1..m |-> [key |-> i] @@ ts[i]]
    /\ pc' = "board"
    /\ UNCHANGED <<ideas, rankList, EPIC_ROADMAP_RANK, backlog, keys, idx, cmds,
                   lifeVars, allocVars, slotVars, runVars, passVars>>

\* The JQL of get_andrej_ready_backlog (main.py:171): in no sprint or in a
\* closed one, status Ready, story points set.
ReadyBacklogIssues ==
    SelectSeq(tickets, LAMBDA t :
        /\ t.sprint = 0 \/ sprints[t.sprint].state = "closed"
        /\ t.status = "Ready"
        /\ t.customfield_10016 # {})

\* main.py:3728-3739: the future sprints (the runway already holds them),
\* the sorted ready backlog, the pointer at its head.
AllocationBeginAt(at, fs) ==
    /\ pc = at
    /\ future_sprints' = fs
    /\ backlog' = SortedBacklog(ReadyBacklogIssues)
    /\ idx' = 0
    /\ sprint_pos' = 1
    /\ avail' = 0
    /\ pc' = IF backlog' = <<>> THEN "allocated" ELSE "next_sprint"
    /\ UNCHANGED <<tickets, sprints, ideas, rankList, EPIC_ROADMAP_RANK, keys, cmds,
                   lifeVars, slotVars, runVars, passVars>>

AllocationBegin == AllocationBeginAt("board", get_future_sprints)

\* main.py:3740-3742: the sprints or the backlog are exhausted.
AllocationEnd ==
    /\ pc = "next_sprint"
    /\ sprint_pos > Len(future_sprints) \/ idx >= Len(backlog)
    /\ pc' = "allocated"
    /\ UNCHANGED <<tickets, sprints, ideas, rankList, EPIC_ROADMAP_RANK, backlog,
                   keys, idx, cmds, lifeVars, allocVars, slotVars, runVars, passVars>>

\* main.py:3743-3747: the next sprint's available points; a sprint with
\* none is passed over.
VisitSprint ==
    /\ pc = "next_sprint"
    /\ sprint_pos <= Len(future_sprints) /\ idx < Len(backlog)
    /\ avail' = MAX_SPRINT_POINTS - get_sprint_todo_points(future_sprints[sprint_pos].id)
    /\ IF avail' <= 0
       THEN sprint_pos' = sprint_pos + 1 /\ pc' = "next_sprint"
       ELSE sprint_pos' = sprint_pos /\ pc' = "filling"
    /\ UNCHANGED <<tickets, sprints, ideas, rankList, EPIC_ROADMAP_RANK, backlog,
                   keys, idx, cmds, lifeVars, future_sprints, slotVars, runVars, passVars>>

\* Mutant: a ticket of no points counts as larger than any sprint.
PointsAtPointer_zero_as_large ==
    IF OrElse(Get(backlog[idx + 1], "customfield_10016"), 0) = 0
    THEN MAX_SPRINT_POINTS + 1
    ELSE OrElse(Get(backlog[idx + 1], "customfield_10016"), 0)

\* pts = issue["fields"].get(STORY_POINTS_FIELD) or 0 (main.py:3751)
PointsAtPointer == OrElse(Get(backlog[idx + 1], "customfield_10016"), 0)

\* main.py:3753-3755: the ticket at the pointer is larger than what is left.
SkipTicket ==
    /\ pc = "filling" /\ idx < Len(backlog) /\ avail > 0
    /\ PointsAtPointer > avail
    /\ idx' = idx + 1
    /\ UNCHANGED <<pc, tickets, sprints, ideas, rankList, EPIC_ROADMAP_RANK, backlog,
                   keys, cmds, lifeVars, allocVars, slotVars, runVars, passVars>>

\* main.py:3756-3759: the ticket fits and the store accepts the move.
AssignAccepted ==
    /\ pc = "filling" /\ idx < Len(backlog) /\ avail > 0
    /\ PointsAtPointer <= avail
    /\ tickets' = MoveIssue(backlog[idx + 1].key, future_sprints[sprint_pos].id)
    /\ cmds' = Append(cmds, MoveCmd(backlog[idx + 1].key, future_sprints[sprint_pos].id, TRUE))
    /\ avail' = avail - PointsAtPointer
    /\ idx' = idx + 1
    /\ UNCHANGED <<pc, sprints, ideas, rankList, EPIC_ROADMAP_RANK, backlog, keys,
                   lifeVars, future_sprints, sprint_pos, slotVars, runVars, passVars>>

\* Mutant: a rejected move ends the pass.
AssignRejected_aborts ==
    /\ pc = "filling" /\ idx < Len(backlog) /\ avail > 0
    /\ PointsAtPointer <= avail
    /\ cmds' = Append(cmds, MoveCmd(backlog[idx + 1].key, future_sprints[sprint_pos].id, FALSE))
    /\ idx' = idx + 1
    /\ pc' = "pass_done"
    /\ UNCHANGED <<tickets, sprints, ideas, rankList, EPIC_ROADMAP_RANK, backlog,
                   keys, lifeVars, allocVars, slotVars, runVars, passVars>>

\* main.py:3756/3759: the ticket fits and the store rejects the move.
AssignRejected ==
    /\ pc = "filling" /\ idx < Len(backlog) /\ avail > 0
    /\ PointsAtPointer <= avail
    /\ cmds' = Append(cmds, MoveCmd(backlog[idx + 1].key, future_sprints[sprint_pos].id, FALSE))
    /\ idx' = idx + 1
    /\ UNCHANGED <<pc, tickets, sprints, ideas, rankList, EPIC_ROADMAP_RANK, backlog,
                   keys, lifeVars, allocVars, slotVars, runVars, passVars>>

\* Mutant: the backlog is scanned from its head again for the next sprint.
SprintFilled_rescan ==
    /\ pc = "filling"
    /\ idx >= Len(backlog) \/ avail <= 0
    /\ sprint_pos' = sprint_pos + 1
    /\ idx' = IF sprint_pos < Len(future_sprints) THEN 0 ELSE idx
    /\ pc' = "next_sprint"
    /\ UNCHANGED <<tickets, sprints, ideas, rankList, EPIC_ROADMAP_RANK, backlog,
                   keys, cmds, lifeVars, future_sprints, avail, slotVars, runVars, passVars>>

\* main.py:3748: the while loop ends, the for loop takes the next sprint.
SprintFilled ==
    /\ pc = "filling"
    /\ idx >= Len(backlog) \/ avail <= 0
    /\ sprint_pos' = sprint_pos + 1
    /\ pc' = "next_sprint"
    /\ UNCHANGED <<tickets, sprints, ideas, rankList, EPIC_ROADMAP_RANK, backlog,
                   keys, idx, cmds, lifeVars, future_sprints, avail, slotVars, runVars, passVars>>

NextAlloc ==
    \/ BoardForAllocation
    \/ AllocationBegin
    \/ AllocationEnd
    \/ VisitSprint
    \/ SkipTicket
    \/ AssignAccepted
    \/ AssignRejected
    \/ SprintFilled

SpecAlloc == Init /\ [][NextAlloc]_vars

(***************************************************************************)
(* Roadmap slotting: prioritise_strategic_ideas (main.py:2815-2864) and    *)
(* prioritise_feedback_ideas (main.py:960-1024), the same code over the    *)
(* scored ideas of one swimlane.                                           *)
(***************************************************************************)
\* The ideas of one swimlane: one with no reach score yet, then n scored
\* ones whose reach runs 5, 2, 4, 1, 3 and whose effort alternates between
\* 1 and 2; by turns an idea is in the Backlog bucket, in no column, in the
\* first column.
SlotIdea(i) ==
    [key |-> i,
     roadmap |-> <<0, ROADMAP_COLUMNS[1], ROADMAP_BACKLOG_ID>>[1 + (i % 3)],
     reach |-> IF i = 1 THEN {} ELSE {1 + ((2 * i) % 5)},
     impact |-> {1}, confidence |-> {1}, effort |-> {1 + (i % 2)}]

BoardForSlotting ==
    /\ pc = "start"
    /\ \E n \in 0..MaxSlotItems : ideas' = [i \in 1..(1 + n) |-> SlotIdea(i)]
    /\ pc' = "board"
    /\ UNCHANGED <<tickets, sprints, rankList, EPIC_ROADMAP_RANK, backlog, keys, idx,
                   cmds, lifeVars, allocVars, slotVars, runVars, passVars>>

SlotFields == {"summary", "reach", "impact", "confidence", "effort", "roadmap"}

\* The JQL of both fetches: the four RICE scores are set.
ScoredIdeas ==
    LET scored == SelectSeq(ideas, LAMBDA i :
                      i.reach # {} /\ i.impact # {} /\ i.confidence # {} /\ i.effort # {})
    IN [i \in DOMAIN scored |-> Project(scored[i], SlotFields)]

\* Mutant: the fetched order is kept.
SortByRice_unsorted(issues) == issues

\* issues.sort(key=lambda x: x["_rice_value"], reverse=True): stable, the
\* larger value first.
SortByRiceDescending(issues) ==
    StableSort(issues, {p \in (DOMAIN issues) \X (DOMAIN issues) :
                           RatLess(RiceValue(issues[p[2]]), RiceValue(issues[p[1]]))})

\* Mutant: one more slot per column.
slots_one_more == IDEAS_PER_COLUMN + 1

\* slots = IDEAS_PER_COLUMN (main.py:995, 2836)
slots == IDEAS_PER_COLUMN

\* main.py:961-989, 2817-2831: fetch, compute the values, sort; nothing to
\* do for an empty list.
SlottingBeginAtWith(at, fetched) ==
    /\ pc = at
    /\ slot_issues' = SortByRiceDescending(fetched)
    /\ idx' = 0
    /\ col' = 1
    /\ assigned' = 0
    /\ pc' = IF fetched = <<>> THEN "slotted" ELSE "next_column"
    /\ UNCHANGED <<tickets, sprints, ideas, rankList, EPIC_ROADMAP_RANK, backlog, keys,
                   cmds, lifeVars, allocVars, runVars, passVars>>

SlottingBeginWith(fetched) == SlottingBeginAtWith("board", fetched)

\* The store returns the ideas in its own order.
SlottingBegin == SlottingBeginWith(ScoredIdeas)

\* main.py:992-996: the for loop takes the next column.
NextColumn ==
    /\ pc = "next_column"
    /\ col <= Len(ROADMAP_COLUMNS) /\ idx < Len(slot_issues)
    /\ assigned' = 0
    /\ pc' = "slotting"
    /\ UNCHANGED <<tickets, sprints, ideas, rankList, EPIC_ROADMAP_RANK, backlog, keys,
                   idx, cmds, lifeVars, allocVars, slot_issues, col, runVars, passVars>>

\* main.py:992-994: the columns or the ideas are exhausted.
ColumnsEnd ==
    /\ pc = "next_column"
    /\ col > Len(ROADMAP_COLUMNS) \/ idx >= Len(slot_issues)
    /\ pc' = "overflow"
    /\ UNCHANGED <<tickets, sprints, ideas, rankList, EPIC_ROADMAP_RANK, backlog, keys,
                   idx, cmds, lifeVars, allocVars, slotVars, runVars, passVars>>

\* Mutant: the column of the first idea is read for every idea.
current_roadmap_of_first == slot_issues[1].roadmap

\* current_roadmap = (issue["fields"].get(ROADMAP_FIELD) or {}).get("id")
current_roadmap == slot_issues[idx + 1].roadmap

\* One turn of either loop as the log shows it: the idea, its target, whether
\* a write was sent and whether the store accepted it.
SlotCmd(target, put, ok) ==
    [op |-> "slot", issue |-> slot_issues[idx + 1].key, target |-> target,
     put |-> put, ok |-> ok]

\* jira_put of the roadmap field, accepted by the store.
SetRoadmap(key, target) == [ideas EXCEPT ![key].roadmap = target]

Rejections == Cardinality({i \in DOMAIN cmds : cmds[i].op = "slot" /\ ~cmds[i].ok})

\* main.py:997-1012: the idea at the pointer is already in the column.
SlotAlready ==
    /\ pc = "slotting" /\ idx < Len(slot_issues) /\ assigned < slots
    /\ current_roadmap = ROADMAP_COLUMNS[col]
    /\ cmds' = Append(cmds, SlotCmd(ROADMAP_COLUMNS[col], FALSE, TRUE))
    /\ idx' = idx + 1
    /\ assigned' = assigned + 1
    /\ UNCHANGED <<pc, tickets, sprints, ideas, rankList, EPIC_ROADMAP_RANK, backlog,
                   keys, lifeVars, allocVars, slot_issues, col, runVars, passVars>>

\* main.py:997-1012: the idea is written to the column, the store accepts.
SlotWriteAccepted ==
    /\ pc = "slotting" /\ idx < Len(slot_issues) /\ assigned < slots
    /\ current_roadmap # ROADMAP_COLUMNS[col]
    /\ ideas' = SetRoadmap(slot_issues[idx + 1].key, ROADMAP_COLUMNS[col])
    /\ cmds' = Append(cmds, SlotCmd(ROADMAP_COLUMNS[col], TRUE, TRUE))
    /\ idx' = idx + 1
    /\ assigned' = assigned + 1
    /\ UNCHANGED <<pc, tickets, sprints, rankList, EPIC_ROADMAP_RANK, backlog,
                   keys, lifeVars, allocVars, slot_issues, col, runVars, passVars>>

\* main.py:997-1012: the store rejects the write; a warning, and the idea
\* counts against the column all the same.
SlotWriteRejected ==
    /\ pc = "slotting" /\ idx < Len(slot_issues) /\ assigned < slots
    /\ current_roadmap # ROADMAP_COLUMNS[col]
    /\ Rejections < MaxSlotRejections
    /\ cmds' = Append(cmds, SlotCmd(ROADMAP_COLUMNS[col], TRUE, FALSE))
    /\ idx' = idx + 1
    /\ assigned' = assigned + 1
    /\ UNCHANGED <<pc, tickets, sprints, ideas, rankList, EPIC_ROADMAP_RANK, backlog,
                   keys, lifeVars, allocVars, slot_issues, col, runVars, passVars>>

\* main.py:996: the while loop ends, the for loop moves on.
ColumnFilled ==
    /\ pc = "slotting"
    /\ idx >= Len(slot_issues) \/ assigned >= slots
    /\ col' = col + 1
    /\ pc' = "next_column"
    /\ UNCHANGED <<tickets, sprints, ideas, rankList, EPIC_ROADMAP_RANK, backlog, keys,
                   idx, cmds, lifeVars, allocVars, slot_issues, assigned, runVars, passVars>>

\* main.py:1014-1024: a remaining idea is already in the Backlog bucket.
BacklogAlready ==
    /\ pc = "overflow" /\ idx < Len(slot_issues)
    /\ current_roadmap = ROADMAP_BACKLOG_ID
    /\ cmds' = Append(cmds, SlotCmd(ROADMAP_BACKLOG_ID, FALSE, TRUE))
    /\ idx' = idx + 1
    /\ UNCHANGED <<pc, tickets, sprints, ideas, rankList, EPIC_ROADMAP_RANK, backlog,
                   keys, lifeVars, allocVars, slotVars, runVars, passVars>>

\* main.py:1014-1024: a remaining idea is written to the Backlog bucket.
BacklogWriteAccepted ==
    /\ pc = "overflow" /\ idx < Len(slot_issues)
    /\ current_roadmap # ROADMAP_BACKLOG_ID
    /\ ideas' = SetRoadmap(slot_issues[idx + 1].key, ROADMAP_BACKLOG_ID)
    /\ cmds' = Append(cmds, SlotCmd(ROADMAP_BACKLOG_ID, TRUE, TRUE))
    /\ idx' = idx + 1
    /\ UNCHANGED <<pc, tickets, sprints, rankList, EPIC_ROADMAP_RANK, backlog,
                   keys, lifeVars, allocVars, slotVars, runVars, passVars>>

\* main.py:1014-1024: the store rejects the write; nothing is logged.
BacklogWriteRejected ==
    /\ pc = "overflow" /\ idx < Len(slot_issues)
    /\ current_roadmap # ROADMAP_BACKLOG_ID
    /\ Rejections < MaxSlotRejections
    /\ cmds' = Append(cmds, SlotCmd(ROADMAP_BACKLOG_ID, TRUE, FALSE))
    /\ idx' = idx + 1
    /\ UNCHANGED <<pc, tickets, sprints, ideas, rankList, EPIC_ROADMAP_RANK, backlog,
                   keys, lifeVars, allocVars, slotVars, runVars, passVars>>

SlottingEnd ==
    /\ pc = "overflow" /\ idx >= Len(slot_issues)
    /\ pc' = "slotted"
    /\ UNCHANGED <<tickets, sprints, ideas, rankList, EPIC_ROADMAP_RANK, backlog, keys,
                   idx, cmds, lifeVars, allocVars, slotVars, runVars, passVars>>

NextSlot ==
    \/ BoardForSlotting
    \/ SlottingBegin
    \/ NextColumn
    \/ ColumnsEnd
    \/ SlotAlready
    \/ SlotWriteAccepted
    \/ SlotWriteRejected
    \/ ColumnFilled
    \/ BacklogAlready
    \/ BacklogWriteAccepted
    \/ BacklogWriteRejected
    \/ SlottingEnd

SpecSlot == Init /\ [][NextSlot]_vars

(***************************************************************************)
(* Slotting of a few ideas that the search returns in any order (the JQL   *)
(* of main.py:962 and 2791-2795 has no ORDER BY).  With so few ideas none  *)
(* is left for the Backlog loop.                                           *)
(***************************************************************************)
\* Ideas of reach 1 or 2 and the other scores 1; the first one is in the
\* first column already, the others in none.
BoardForSlotOrder ==
    /\ pc = "start"
    /\ \E n \in 0..MaxOrderIdeas : \E rs \in [1..n -> {1, 2}] :
          ideas' = [i \in 1..n |->
                      [key |-> i, roadmap |-> IF i = 1 THEN ROADMAP_COLUMNS[1] ELSE 0,
                       reach |-> {rs[i]}, impact |-> {1}, confidence |-> {1},
                       effort |-> {1}]]
    /\ pc' = "board"
    /\ UNCHANGED <<tickets, sprints, rankList, EPIC_ROADMAP_RANK, backlog, keys, idx,
                   cmds, lifeVars, allocVars, slotVars, runVars, passVars>>

\* The orders in which the search may return the scored ideas.
ScoredIdeaLists ==
    {[r \in DOMAIN ScoredIdeas |-> ScoredIdeas[o[r]]] : o \in Perms(DOMAIN ScoredIdeas)}

SlottingBeginAnyOrder == \E fetched \in ScoredIdeaLists : SlottingBeginWith(fetched)

NextSlotOrder ==
    \/ BoardForSlotOrder
    \/ SlottingBeginAnyOrder
    \/ NextColumn
    \/ ColumnsEnd
    \/ SlotAlready
    \/ SlotWriteAccepted
    \/ SlotWriteRejected
    \/ ColumnFilled
    \/ SlottingEnd

SpecSlotOrder == Init /\ [][NextSlotOrder]_vars

(***************************************************************************)
(* The two slotting calls of a pass: prioritise_strategic_ideas in JOB 15  *)
(* (main.py:3010-3011) on the Strategic Initiatives ideas, then            *)
(* prioritise_feedback_ideas in JOB 6 (main.py:1073-1075) on the User      *)
(* Feedback ideas.  Both walk the same ROADMAP_COLUMNS.  With so few ideas *)
(* none is left for the Backlog loop.                                      *)
(***************************************************************************)
\* Up to MaxLaneIdeas scored ideas in each swimlane, of reach 1 or 2; the
\* first idea is in the first column already, the others in none.
BoardForLanes ==
    /\ pc = "start"
    /\ \E a \in 0..MaxLaneIdeas, b \in 0..MaxLaneIdeas : \E rs \in [1..(a + b) -> {1, 2}] :
          ideas' = [i \in 1..(a + b) |->
                      [key |-> i,
                       swimlane |-> IF i <= a THEN "Strategic Initiatives"
                                    ELSE "User Feedback",
                       roadmap |-> IF i = 1 THEN ROADMAP_COLUMNS[1] ELSE 0,
                       reach |-> {rs[i]}, impact |-> {1}, confidence |-> {1},
                       effort |-> {1}]]
    /\ pc' = "board"
    /\ UNCHANGED <<tickets, sprints, rankList, EPIC_ROADMAP_RANK, backlog, keys, idx,
                   cmds, lifeVars, allocVars, slotVars, runVars, passVars>>

\* The JQL of the two fetches (main.py:962, 2791-2795): the swimlane and the
\* four scores.
ScoredIdeasOf(lane) ==
    LET scored == SelectSeq(ideas, LAMBDA i :
                      /\ i.swimlane = lane
                      /\ i.reach # {} /\ i.impact # {} /\ i.confidence # {} /\ i.effort # {})
    IN [i \in DOMAIN scored |-> Project(scored[i], SlotFields)]

StrategicSlottingBegin ==
    SlottingBeginAtWith("board", ScoredIdeasOf("Strategic Initiatives"))

\* main.py:3772-3773: the line of JOB 6, once JOB 15 has slotted its ideas.
LanesJob6 ==
    /\ \A i \in DOMAIN cmds : cmds[i].op # "job"
    /\ pc = "slotted"
    /\ cmds' = Append(cmds, [op |-> "job", name |-> "JOB 6", ok |-> TRUE])
    /\ pc' = "job6"
    /\ UNCHANGED <<tickets, sprints, ideas, rankList, EPIC_ROADMAP_RANK, backlog, keys,
                   idx, lifeVars, allocVars, slotVars, runVars, passVars>>

FeedbackSlottingBegin ==
    SlottingBeginAtWith("job6", ScoredIdeasOf("User Feedback"))

NextLanes ==
    \/ BoardForLanes
    \/ StrategicSlottingBegin
    \/ LanesJob6
    \/ FeedbackSlottingBegin
    \/ NextColumn
    \/ ColumnsEnd
    \/ SlotAlready
    \/ SlotWriteAccepted
    \/ SlotWriteRejected
    \/ ColumnFilled
    \/ SlottingEnd

SpecLanes == Init /\ [][NextLanes]_vars

(***************************************************************************)
(* JOB 1: ensure_sprint_runway (main.py:268-285) with next_tuesday         *)
(* (213-215) and create_sprint (217-224).  Dates are day numbers; day 0 is *)
(* a Monday, so that the weekday of a day is the day modulo 7 as           *)
(* datetime.weekday() counts it (Monday 0, Tuesday 1).                     *)
(***************************************************************************)
\* Mutant: a runway one sprint short.
required_less_one == 8 - 1

\* ensure_sprint_runway(future_sprints, required=8), called with required=8
required == 8

weekday(dt) == dt % 7

\* Mutant: a Tuesday is its own next Tuesday.
next_tuesday_same_day(dt) == dt + ((1 - weekday(dt)) % 7)

\* next_tuesday (main.py:213-215)
next_tuesday(dt) ==
    LET days == (1 - weekday(dt)) % 7
    IN dt + (IF days # 0 THEN days ELSE 7)

\* The board the runway can meet: today on any weekday, no active sprint or
\* one that ends today, and n future sprints of 14 days one after the other.
BoardForRunway ==
    /\ pc = "start"
    /\ \E d \in 0..6, a \in 0..1, n \in 0..MaxRunwaySprints :
          /\ today' = d
          /\ sprints' =
                [i \in 1..(a + n) |->
                   IF i <= a
                   THEN [id |-> i, state |-> "active", startDate |-> d - 13, endDate |-> d]
                   ELSE [id |-> i, state |-> "future",
                         startDate |-> d + 1 + 14 * (i - a - 1),
                         endDate |-> d + 14 + 14 * (i - a - 1)]]
    /\ pc' = "board"
    /\ UNCHANGED <<tickets, ideas, rankList, EPIC_ROADMAP_RANK, backlog, keys, idx, cmds,
                   active, carryover, ns, allocVars, slotVars, runVars, passVars>>

MaxOf(S) == CHOOSE x \in S : \A y \in S : y <= x

\* main.py:273-275: the latest end date among the future and the active
\* sprints, today when there is none.
LatestEnd ==
    LET all_s == {i \in DOMAIN sprints : sprints[i].state \in {"future", "active"}}
    IN IF all_s = {} THEN today
       ELSE MaxOf({sprints[i].endDate : i \in all_s})

\* run() line 3728 and main.py:269-275: the future sprints are fetched; with
\* required of them or more the list is returned as it is; otherwise the
\* loop is set for required - len(future_sprints) turns (idx counts the
\* turns left).
RunwayBeginAt(at) ==
    /\ pc = at
    /\ future_sprints' = get_future_sprints
    /\ IF Len(future_sprints') >= required
       THEN pc' = "runway_done" /\ UNCHANGED <<idx, last_end>>
       ELSE /\ pc' = "creating"
            /\ idx' = required - Len(future_sprints')
            /\ last_end' = LatestEnd
    /\ UNCHANGED <<tickets, sprints, ideas, rankList, EPIC_ROADMAP_RANK, backlog, keys,
                   cmds, lifeVars, sprint_pos, avail, slotVars, passVars>>

RunwayBegin == RunwayBeginAt("board")

CreateCmd(start, end, ok) ==
    [op |-> "create", startDate |-> start, endDate |-> end, ok |-> ok]

\* create_sprint accepted: the store returns the new future sprint.
NewSprint(start, end) ==
    [id |-> Len(sprints) + 1, state |-> "future", startDate |-> start, endDate |-> end]

\* main.py:276-283: one turn of the loop, the store creating the sprint.
CreateSprintAccepted ==
    /\ pc = "creating" /\ idx > 0
    /\ LET start == next_tuesday(last_end + 1)
           end == start + 13
       IN /\ sprints' = Append(sprints, NewSprint(start, end))
          /\ future_sprints' = Append(future_sprints, NewSprint(start, end))
          /\ cmds' = Append(cmds, CreateCmd(start, end, TRUE))
          /\ last_end' = end
    /\ idx' = idx - 1
    /\ UNCHANGED <<pc, tickets, ideas, rankList, EPIC_ROADMAP_RANK, backlog, keys,
                   lifeVars, sprint_pos, avail, slotVars, passVars>>

\* Mutant: a rejected creation leaves last_end where it was.
CreateSprintRejected_keeps_last_end ==
    /\ pc = "creating" /\ idx > 0
    /\ LET start == next_tuesday(last_end + 1)
           end == start + 13
       IN cmds' = Append(cmds, CreateCmd(start, end, FALSE))
    /\ idx' = idx - 1
    /\ UNCHANGED <<pc, tickets, sprints, ideas, rankList, EPIC_ROADMAP_RANK, backlog,
                   keys, lifeVars, allocVars, slotVars, runVars, passVars>>

\* main.py:276-283: one turn of the loop, the store rejecting the creation:
\* nothing is appended and last_end advances all the same.
CreateSprintRejected ==
    /\ pc = "creating" /\ idx > 0
    /\ LET start == next_tuesday(last_end + 1)
           end == start + 13
       IN /\ cmds' = Append(cmds, CreateCmd(start, end, FALSE))
          /\ last_end' = end
    /\ idx' = idx - 1
    /\ UNCHANGED <<pc, tickets, sprints, ideas, rankList, EPIC_ROADMAP_RANK, backlog,
                   keys, lifeVars, allocVars, slotVars, passVars>>

\* main.py:284-285: the list is sorted by start date and returned.
RunwayEnd ==
    /\ pc = "creating" /\ idx = 0
    /\ future_sprints' =
          StableSort(future_sprints,
                     {p \in (DOMAIN future_sprints) \X (DOMAIN future_sprints) :
                         future_sprints[p[1]].startDate < future_sprints[p[2]].startDate})
    /\ pc' = "runway_done"
    /\ UNCHANGED <<tickets, sprints, ideas, rankList, EPIC_ROADMAP_RANK, backlog, keys,
                   idx, cmds, lifeVars, sprint_pos, avail, slotVars, runVars, passVars>>

NextRunway ==
    \/ BoardForRunway
    \/ RunwayBegin
    \/ CreateSprintAccepted
    \/ CreateSprintRejected
    \/ RunwayEnd

SpecRunway == Init /\ [][NextRunway]_vars

(***************************************************************************)
(* JOB 0 and JOB 1 pass after pass on the scheduler's days (main.py:       *)
(* 3801-3807): PassesPerDay passes a day, the store accepting every        *)
(* command.                                                                *)
(***************************************************************************)
ScheduledRunwayBegin == RunwayBeginAt("lifecycle_done")

\* The next pass of the schedule; after the last pass of a day today is the
\* next day.
ScheduledPass ==
    /\ pc = "runway_done"
    /\ run_no + 1 < MaxScheduleDays * PassesPerDay
    /\ run_no' = run_no + 1
    /\ today' = IF run_no' % PassesPerDay = 0 THEN today + 1 ELSE today
    /\ pc' = "board"
    /\ UNCHANGED <<tickets, sprints, ideas, rankList, EPIC_ROADMAP_RANK, backlog, keys,
                   idx, cmds, active, carryover, ns, allocVars, slotVars, runVars,
                   rank_pos>>

NextSchedule ==
    \/ BoardForLifecyclePasses
    \/ LifecycleBegin
    \/ CloseSprintAccepted
    \/ KeepSprint
    \/ LifecycleNoStart
    \/ StartSprintAccepted
    \/ CarryAccepted
    \/ CarryEnd
    \/ ScheduledRunwayBegin
    \/ CreateSprintAccepted
    \/ RunwayEnd
    \/ ScheduledPass

\* The scheduler keeps calling run(), and run() goes on to its end.
SpecSchedule == Init /\ [][NextSchedule]_vars /\ WF_vars(NextSchedule)

(***************************************************************************)
(* Passes of JOB 2 one after the other, as the scheduler calls run() again *)
(* (main.py:3801-3807, 3845): the next pass reads the board the last one   *)
(* left.                                                                   *)
(***************************************************************************)
RunAllocationAgain ==
    /\ pc = "allocated"
    /\ run_no + 1 < MaxPasses
    /\ run_no' = run_no + 1
    /\ pc' = "board"
    /\ UNCHANGED <<tickets, sprints, ideas, rankList, EPIC_ROADMAP_RANK, backlog, keys,
                   idx, cmds, lifeVars, allocVars, slotVars, runVars, rank_pos>>

NextAllocPasses == NextAlloc \/ RunAllocationAgain

SpecAllocPasses == Init /\ [][NextAllocPasses]_vars

(***************************************************************************)
(* The RICE value as the engine reads it from the store: the cache step of *)
(* process_strategic_pipeline (main.py:3010-3031) over an idea whose RICE   *)
(* fields hold whatever the store holds.                                   *)
(***************************************************************************)
\* A RICE field of the store: unset, or any number a person may have typed.
RiceFieldChoices == {{}, {-1}, {0}, {1}, {5}, {6}}

BoardForScoring ==
    /\ pc = "start"
    /\ \E r \in RiceFieldChoices, i \in RiceFieldChoices, c \in RiceFieldChoices,
          e \in RiceFieldChoices :
          ideas' = <<[key |-> 1, roadmap |-> ROADMAP_COLUMNS[1], reach |-> r, impact |-> i,
                      confidence |-> c, effort |-> e, epic |-> 101]>>
    /\ pc' = "board"
    /\ UNCHANGED <<tickets, sprints, rankList, EPIC_ROADMAP_RANK, backlog, keys, idx,
                   cmds, lifeVars, allocVars, slotVars, runVars, passVars>>

\* get_strategic_ideas_scored (main.py:2789-2812): the ideas whose four RICE
\* fields are set.
get_strategic_ideas_scored ==
    SelectSeq(ideas, LAMBDA i :
        i.reach # {} /\ i.impact # {} /\ i.confidence # {} /\ i.effort # {})

\* main.py:3014-3031: the scored ideas are fetched again and the cache is
\* refilled from them.
CacheScoredIdeasAt(at) ==
    /\ pc = at
    /\ EPIC_ROADMAP_RANK' = EpicRankOf(get_strategic_ideas_scored)
    /\ pc' = "cached"
    /\ UNCHANGED <<tickets, sprints, ideas, rankList, backlog, keys, idx, cmds,
                   lifeVars, allocVars, slotVars, runVars, passVars>>

CacheScoredIdeas == CacheScoredIdeasAt("board")

NextScore ==
    \/ BoardForScoring
    \/ CacheScoredIdeas

SpecScore == Init /\ [][NextScore]_vars

(***************************************************************************)
(* run() (main.py:3721-3791): the jobs on sprints and tickets of one pass, *)
(* in the order of the source: JOB 0 lifecycle, JOB 1 runway, JOB 15 (on a *)
(* board without ideas: the rank cache is rebuilt empty), JOB 2            *)
(* allocation, JOB 3 ranking of the sprints, JOB 4 ranking of the backlog. *)
(* The lines run() writes to the log are kept in cmds between the          *)
(* commands.                                                               *)
(***************************************************************************)
\* log.info("JOB ..."): a line of the log, not a command.
JobLine(name) == [op |-> "job", name |-> name, ok |-> TRUE]

\* The boards a pass meets when the runway is kept: today is day 10, no
\* active sprint or one that ends today or tomorrow, required future sprints
\* one after the other or a few less, tickets in progress in the first
\* sprint or ready in the backlog.
PassTicketChoices ==
    [issuetype : {"Task"}, parent : {0}, priority : {"High", "Low"},
     status : {"Ready"}, sprint : {0}, customfield_10016 : {{10}, {30}}]
    \cup [issuetype : {"Task"}, parent : {0}, priority : {"Medium"},
          status : {"In Progress"}, sprint : {1}, customfield_10016 : {{5}}]

BoardForPass ==
    /\ pc = "start"
    /\ today' = 10
    /\ \E a \in 0..1, e \in {10, 11}, n \in (required - MaxPassCreates)..required :
          sprints' =
             [i \in 1..(a + n) |->
                IF i <= a
                THEN [id |-> i, state |-> "active", startDate |-> e - 13, endDate |-> e]
                ELSE [id |-> i, state |-> "future",
                      startDate |-> e + 1 + 14 * (i - a - 1),
                      endDate |-> e + 14 + 14 * (i - a - 1)]]
    /\ \E m \in 0..MaxPassTickets : \E ts \in [1..m -> PassTicketChoices] :
          /\ tickets' = [i \in 1..m |-> [key |-> i] @@ ts[i]]
          /\ rankList' \in Perms(1..m)
    /\ pc' = "pass_board"
    /\ UNCHANGED <<ideas, EPIC_ROADMAP_RANK, backlog, keys, idx, cmds,
                   active, carryover, ns, allocVars, slotVars, runVars, passVars>>

\* A line of the log between two jobs.
PassLine(at, name, to) ==
    /\ pc = at
    /\ cmds' = Append(cmds, JobLine(name))
    /\ pc' = to
    /\ UNCHANGED <<tickets, sprints, ideas, rankList, EPIC_ROADMAP_RANK, backlog, keys,
                   idx, lifeVars, allocVars, slotVars, runVars, passVars>>

\* main.py:3722-3725
PassJob0 == PassLine("pass_board", "JOB 0", "job0")
PassLifecycleBegin == LifecycleBeginAt("job0")

\* main.py:3727-3729
PassJob1 == PassLine("lifecycle_done", "JOB 1", "job1")
PassRunwayBegin == RunwayBeginAt("job1")

\* main.py:3731-3732
PassJob15 == PassLine("runway_done", "JOB 15", "job15")
PassCacheScoredIdeas == CacheScoredIdeasAt("job15")

\* main.py:3734-3739: the allocator walks the list the runway returned.
PassJob2 == PassLine("cached", "JOB 2", "job2")
PassAllocationBegin == AllocationBeginAt("job2", future_sprints)

\* main.py:3761-3765: the lists JOB 3 ranks, the future sprints of the
\* runway's list and then the active sprints as the store has them.
RankedSprints == [i \in DOMAIN future_sprints |-> future_sprints[i].id]
                 \o [i \in DOMAIN get_active_sprint |-> get_active_sprint[i].id]

PassJob3 ==
    /\ pc = "allocated"
    /\ cmds' = Append(cmds, JobLine("JOB 3"))
    /\ rank_pos' = 1
    /\ pc' = "rank_next"
    /\ UNCHANGED <<tickets, sprints, ideas, rankList, EPIC_ROADMAP_RANK, backlog, keys,
                   idx, lifeVars, allocVars, slotVars, runVars, run_no>>

PassRankSprint ==
    /\ rank_pos <= Len(RankedSprints)
    /\ RankIssuesBeginAt("rank_next", SprintIssueLists(RankedSprints[rank_pos]))

PassSprintRanked ==
    /\ pc = "ranked"
    /\ rank_pos <= Len(RankedSprints)
    /\ rank_pos' = rank_pos + 1
    /\ pc' = "rank_next"
    /\ UNCHANGED <<tickets, sprints, ideas, rankList, EPIC_ROADMAP_RANK, backlog, keys,
                   idx, cmds, lifeVars, allocVars, slotVars, runVars, run_no>>

BacklogIssueFields == {"summary", "priority", "status", "parent", "customfield_10020"}

\* get_backlog_issues (main.py:176-177): in no sprint or in a closed one,
\* neither Released nor Done, in any of the orders the store may return.
get_backlog_issues ==
    LET members == SelectSeq(tickets, LAMBDA t :
                       /\ t.sprint = 0 \/ sprints[t.sprint].state = "closed"
                       /\ t.status \notin {"Released", "Done"})
    IN [i \in DOMAIN members |-> Project(members[i], BacklogIssueFields)]

BacklogIssueLists ==
    {[r \in DOMAIN get_backlog_issues |-> get_backlog_issues[o[r]]] :
        o \in Perms(DOMAIN get_backlog_issues)}

\* main.py:3767-3770
PassJob4 ==
    /\ rank_pos = Len(RankedSprints) + 1
    /\ PassLine("rank_next", "JOB 4", "job4")

PassRankBacklog == RankIssuesBeginAt("job4", BacklogIssueLists)

\* main.py:3786: the pass is over.
PassEnd ==
    /\ rank_pos = Len(RankedSprints) + 1
    /\ PassLine("ranked", "Run complete", "pass_done")

NextPass ==
    \/ BoardForPass
    \/ PassJob0 \/ PassLifecycleBegin
    \/ CloseSprintAccepted \/ CloseSprintRejected \/ KeepSprint
    \/ LifecycleNoStart \/ StartSprintAccepted \/ StartSprintRejected
    \/ CarryAccepted \/ CarryRejected \/ CarryEnd
    \/ PassJob1 \/ PassRunwayBegin
    \/ CreateSprintAccepted \/ CreateSprintRejected \/ RunwayEnd
    \/ PassJob15 \/ PassCacheScoredIdeas
    \/ PassJob2 \/ PassAllocationBegin
    \/ AllocationEnd \/ VisitSprint \/ SkipTicket
    \/ AssignAccepted \/ AssignRejected \/ SprintFilled
    \/ PassJob3 \/ PassRankSprint
    \/ RankMoveAccepted \/ RankMoveRejected \/ RankIssuesEnd
    \/ PassSprintRanked \/ PassJob4 \/ PassRankBacklog \/ PassEnd

SpecPass == Init /\ [][NextPass]_vars

(***************************************************************************)
(* Passes with exceptions.  jira_get raises on a failed read (main.py:145) *)
(* and requests raises when the store cannot be reached; run() catches     *)
(* every Exception and logs it (main.py:3787-3788), and the scheduler      *)
(* calls run() again (main.py:3801-3807).                                  *)
(***************************************************************************)
\* The places of a pass whose next step talks to the store.
RaisingPlaces ==
    {"job0", "closing", "carrying", "job1", "creating", "job15", "job2",
     "next_sprint", "filling", "rank_next", "ranking", "job4"}

\* One active sprint that ends today or none, required future sprints, a
\* ticket in progress in the first sprint, two ready tickets of 30 points
\* in the backlog.
BoardForFaultyPasses ==
    /\ pc = "start"
    /\ today' = 10
    /\ \E a \in 0..1 :
          sprints' =
             [i \in 1..(a + required) |->
                IF i <= a
                THEN [id |-> i, state |-> "active", startDate |-> -3, endDate |-> 10]
                ELSE [id |-> i, state |-> "future",
                      startDate |-> 11 + 14 * (i - a - 1),
                      endDate |-> 24 + 14 * (i - a - 1)]]
    /\ tickets' =
          <<[key |-> 1, issuetype |-> "Task", parent |-> 0, priority |-> "Medium",
             status |-> "In Progress", sprint |-> 1, customfield_10016 |-> {5}],
            [key |-> 2, issuetype |-> "Task", parent |-> 0, priority |-> "High",
             status |-> "Ready", sprint |-> 0, customfield_10016 |-> {30}],
            [key |-> 3, issuetype |-> "Task", parent |-> 0, priority |-> "Low",
             status |-> "Ready", sprint |-> 0, customfield_10016 |-> {30}]>>
    /\ rankList' = <<1, 2, 3>>
    /\ pc' = "pass_board"
    /\ UNCHANGED <<ideas, EPIC_ROADMAP_RANK, backlog, keys, idx, cmds,
                   active, carryover, ns, allocVars, slotVars, runVars, passVars>>

\* Mutant: the exception is not caught and ends the process.
RunFails_uncaught ==
    /\ pc \in RaisingPlaces
    /\ pc' = "crashed"
    /\ UNCHANGED <<tickets, sprints, ideas, rankList, EPIC_ROADMAP_RANK, backlog, keys,
                   idx, cmds, lifeVars, allocVars, slotVars, runVars, passVars>>

\* main.py:3787-3788: an exception leaves the try block; the error is
\* logged and run() returns.
RunFails ==
    /\ pc \in RaisingPlaces
    /\ cmds' = Append(cmds, JobLine("Run failed"))
    /\ pc' = "run_failed"
    /\ UNCHANGED <<tickets, sprints, ideas, rankList, EPIC_ROADMAP_RANK, backlog, keys,
                   idx, lifeVars, allocVars, slotVars, runVars, passVars>>

\* The scheduler calls run() again, after a pass that ended or failed.
RunPassAgain ==
    /\ pc \in {"pass_done", "run_failed"}
    /\ run_no + 1 < MaxFaultyPasses
    /\ run_no' = run_no + 1
    /\ pc' = "pass_board"
    /\ UNCHANGED <<tickets, sprints, ideas, rankList, EPIC_ROADMAP_RANK, backlog, keys,
                   idx, cmds, lifeVars, allocVars, slotVars, runVars, rank_pos>>

NextFaultyPasses ==
    \/ BoardForFaultyPasses
    \/ PassJob0 \/ PassLifecycleBegin
    \/ CloseSprintAccepted \/ CloseSprintRejected \/ KeepSprint
    \/ LifecycleNoStart \/ StartSprintAccepted \/ StartSprintRejected
    \/ CarryAccepted \/ CarryRejected \/ CarryEnd
    \/ PassJob1 \/ PassRunwayBegin
    \/ CreateSprintAccepted \/ CreateSprintRejected \/ RunwayEnd
    \/ PassJob15 \/ PassCacheScoredIdeas
    \/ PassJob2 \/ PassAllocationBegin
    \/ AllocationEnd \/ VisitSprint \/ SkipTicket
    \/ AssignAccepted \/ AssignRejected \/ SprintFilled
    \/ PassJob3 \/ PassRankSprint
    \/ RankMoveAccepted \/ RankMoveRejected \/ RankIssuesEnd
    \/ PassSprintRanked \/ PassJob4 \/ PassRankBacklog \/ PassEnd
    \/ RunFails \/ RunPassAgain

SpecFaultyPasses == Init /\ [][NextFaultyPasses]_vars

(***************************************************************************)
(* Claims about the ticket comparison.                                     *)
(***************************************************************************)
\* Every fetched issue the comparison can meet: any parent, any priority name.
IssueUniverse ==
    [key : {1}, parent : EpicKeys \cup {0},
     priority : {"Highest", "High", "Medium", "Low", "Lowest", ""}]

HasRank(t) == t.parent # 0 /\ t.parent \in DOMAIN EPIC_ROADMAP_RANK
RankOf(t) == EPIC_ROADMAP_RANK[t.parent][1]
RiceOf(t) == EPIC_ROADMAP_RANK[t.parent][2]
Ordinal(p) ==
    CASE p = "Highest" -> 1 [] p = "High" -> 2 [] p = "Medium" -> 3
      [] p = "Low" -> 4 [] p = "Lowest" -> 5 [] OTHER -> 999

Tie(a, b) == ~TicketBefore(a, b) /\ ~TicketBefore(b, a)

\* The order the claim states for two tickets of ranked epics.
RankedOrder(a, b) ==
    \/ RankOf(a) < RankOf(b)
    \/ RankOf(a) = RankOf(b) /\ RatLess(RiceOf(b), RiceOf(a))
    \/ RankOf(a) = RankOf(b) /\ RatEq(RiceOf(a), RiceOf(b))
         /\ Ordinal(a.priority) < Ordinal(b.priority)

\* C7: under every cache the pipeline can build, the ticket comparison is a
\* strict weak ordering (irreflexive, transitive, ties transitive); between
\* two tickets of ranked epics it orders by column rank ascending, then RICE
\* value descending, then priority ordinal ascending (Highest = 1 .. Lowest =
\* 5, unknown = 999), between two tickets without a ranked epic by priority
\* ordinal alone; and the sorted backlog is ordered by it.
C7_StrictWeakOrder ==
    /\ pc = "cached" =>
          /\ \A a \in IssueUniverse : ~TicketBefore(a, a)
          /\ \A a, b, c \in IssueUniverse :
                /\ (TicketBefore(a, b) /\ TicketBefore(b, c)) => TicketBefore(a, c)
                /\ (Tie(a, b) /\ Tie(b, c)) => Tie(a, c)
          /\ \A a, b \in IssueUniverse :
                /\ (HasRank(a) /\ HasRank(b)) => (TicketBefore(a, b) <=> RankedOrder(a, b))
                /\ (~HasRank(a) /\ ~HasRank(b)) =>
                      (TicketBefore(a, b) <=> Ordinal(a.priority) < Ordinal(b.priority))
    /\ pc = "sorted" =>
          /\ Len(backlog) = Len(tickets)
          /\ {backlog[i].key : i \in DOMAIN backlog} = {tickets[i].key : i \in DOMAIN tickets}
          /\ \A i, j \in DOMAIN backlog : i < j =>
                /\ (HasRank(backlog[i]) /\ HasRank(backlog[j])) =>
                      ~RankedOrder(backlog[j], backlog[i])
                /\ (~HasRank(backlog[i]) /\ ~HasRank(backlog[j])) =>
                      Ordinal(backlog[i].priority) <= Ordinal(backlog[j].priority)

\* Witness of C7: a sorted backlog of two tickets whose epics share a column,
\* the first with the larger RICE value and the worse priority.
C7_Witness ==
    /\ pc = "sorted" /\ Len(backlog) = 2
    /\ HasRank(backlog[1]) /\ HasRank(backlog[2])
    /\ RankOf(backlog[1]) = RankOf(backlog[2])
    /\ RatLess(RiceOf(backlog[2]), RiceOf(backlog[1]))
    /\ backlog[1].priority = "Low" /\ backlog[2].priority = "Highest"
    /\ backlog[1].key > backlog[2].key

\* C8: in the sorted backlog every ticket whose epic has no entry in the
\* cache comes after every ticket whose epic has one, whatever column rank
\* the entry carries, and the tickets without an entry are in priority order.
C8_UnrankedAfterRanked ==
    pc = "sorted" =>
       \A i, j \in DOMAIN backlog :
          /\ (HasRank(backlog[i]) /\ ~HasRank(backlog[j])) => i < j
          /\ (~HasRank(backlog[i]) /\ ~HasRank(backlog[j]) /\ i < j) =>
                Ordinal(backlog[i].priority) <= Ordinal(backlog[j].priority)

(***************************************************************************)
(* Claims about the rank sequencer.                                        *)
(***************************************************************************)
AllAccepted == \A i \in DOMAIN cmds : cmds[i].ok

\* s occurs in list as a block of neighbours, in order.
ContiguousIn(s, list) ==
    \E o \in 0..(Len(list) - Len(s)) : \A i \in DOMAIN s : list[o + i] = s[i]

\* C2: when rank_issues has ended and the store accepted every move, the
\* ranked tickets stand in the rank list in exactly the target order, as
\* neighbours, whatever the rank list was before; and the rank list still
\* holds every ticket once.
C2_RoundTrip ==
    (pc = "ranked" /\ AllAccepted /\ Len(keys) >= 2) =>
        /\ ContiguousIn(keys, rankList)
        /\ Len(rankList) = Len(tickets)
        /\ Range(rankList) = DOMAIN tickets

\* Witness of C2: three tickets ranked, all moves accepted, the target order
\* not the order of the keys.
C2_Witness ==
    /\ pc = "ranked" /\ AllAccepted /\ Len(keys) = 3 /\ Len(cmds) = 2
    /\ Len(rankList) = 3
    /\ keys = <<3, 1, 2>> /\ rankList = keys

(***************************************************************************)
(* Claims about the sprint lifecycle.                                      *)
(***************************************************************************)
LifecycleOver == pc \in {"carrying", "lifecycle_done"}
CmdsOf(op) == {i \in DOMAIN cmds : cmds[i].op = op}
ActiveAtStart == {active[i].id : i \in DOMAIN active}

\* C3: once the closing step is over in a pass whose commands were all
\* accepted, a sprint that was active at the start of the pass is closed if
\* and only if its end date is today or earlier; otherwise it is still
\* active.
C3_ClosedIffExpired ==
    (LifecycleOver /\ AllAccepted) =>
        \A i \in DOMAIN active :
            /\ sprints[active[i].id].state = "closed" <=> active[i].endDate <= today
            /\ active[i].endDate > today => sprints[active[i].id].state = "active"

\* Witness of C3: a sprint ending exactly today was closed while another,
\* ending tomorrow, stayed active.
C3_Witness ==
    /\ pc = "lifecycle_done" /\ AllAccepted
    /\ \E i, j \in DOMAIN active :
          /\ active[i].endDate = today /\ sprints[active[i].id].state = "closed"
          /\ active[j].endDate = today + 1 /\ sprints[active[j].id].state = "active"

Incomplete(t) == t.status # "Done" /\ t.status # "Released"

C5_StartState ==
    /\ ns # 0 =>
          /\ sprints[ns].state = "active"
          /\ \A i \in DOMAIN sprints :
                sprints[i].state = "future" => sprints[ns].startDate <= sprints[i].startDate
          /\ \A i \in DOMAIN sprints : sprints[i].state = "active" => i = ns
          /\ pc = "lifecycle_done" =>
                \A r \in DOMAIN carryover : \E i \in CmdsOf("move") :
                    /\ cmds[i].issue = carryover[r] /\ cmds[i].sprint = ns
                    /\ cmds[i].ok => tickets[carryover[r]].sprint = ns
    /\ (pc = "lifecycle_done" /\ ns = 0 /\ AllAccepted) =>
          \/ \E i \in DOMAIN sprints : sprints[i].state = "active"
          \/ \A i \in DOMAIN sprints : sprints[i].state # "future"

C5_StartStep ==
    (ns = 0 /\ ns' # 0) =>
        /\ sprints[ns'].state = "future"
        /\ \A i \in DOMAIN sprints : sprints[i].state # "active"
        /\ sprints'[ns'].startDate = sprints[ns'].startDate
        /\ sprints'[ns'].endDate = sprints[ns'].endDate
        /\ \A i \in DOMAIN sprints : i # ns' => sprints'[i] = sprints[i]

C6_AtMostOneStart ==
    /\ Cardinality(CmdsOf("start")) <= 1
    /\ pc \in {"closing", "carrying", "lifecycle_done"} =>
          Cardinality({i \in DOMAIN sprints :
                         sprints[i].state = "active" /\ i \notin ActiveAtStart}) <= 1
    /\ CmdsOf("start") # {} =>
          \A i \in ActiveAtStart : sprints[i].state = "closed"

\* Witness of C6: the close of a sprint that is over was rejected, a future
\* sprint exists, and the pass ended without a start.
C6_Witness ==
    /\ pc = "lifecycle_done" /\ CmdsOf("start") = {}
    /\ \E i \in CmdsOf("close") : ~cmds[i].ok
    /\ \A i \in DOMAIN active : active[i].endDate <= today
    /\ \E i \in DOMAIN sprints : sprints[i].state = "future"

(***************************************************************************)
(* Claims about the capacity allocator.                                    *)
(***************************************************************************)
PointsOf(t) == OrElse(t.customfield_10016, 0)

RECURSIVE SumOver(_, _)
SumOver(S, f) ==
    IF S = {} THEN 0
    ELSE LET x == CHOOSE y \in S : TRUE IN f[x] + SumOver(S \ {x}, f)

\* The points of the sprint's To Do tickets.  The status of a ticket does not
\* change during a pass and the allocator moves Ready tickets only, so this
\* is the value at visit time.
TodoPoints(sid) ==
    SumOver({k \in DOMAIN tickets : tickets[k].sprint = sid /\ tickets[k].status = "To Do"},
            [k \in DOMAIN tickets |-> PointsOf(tickets[k])])

\* The points of the tickets assigned to the sprint so far in this pass.
AssignedPoints(sid) ==
    SumOver({i \in CmdsOf("move") : cmds[i].ok /\ cmds[i].sprint = sid},
            [i \in DOMAIN cmds |-> PointsOf(tickets[cmds[i].issue])])

RemainingCapacity(sid) == MAX_SPRINT_POINTS - TodoPoints(sid) - AssignedPoints(sid)

\* C1: a sprint that was assigned a ticket in this pass has a remaining
\* capacity (budget, minus its To Do points, minus the points assigned to it
\* so far) that is not negative, every assigned ticket having fitted in what
\* remained; and the points assigned to a sprint never exceed the budget.
C1_RemainingNeverNegative ==
    \A s \in DOMAIN sprints :
        /\ AssignedPoints(s) <= MAX_SPRINT_POINTS
        /\ (\E i \in CmdsOf("move") : cmds[i].ok /\ cmds[i].sprint = s) =>
              RemainingCapacity(s) >= 0

(***************************************************************************)
(* Claims about roadmap slotting.                                          *)
(***************************************************************************)
TargetedAt(c) == {i \in CmdsOf("slot") : cmds[i].target = c}

\* C9: in one slotting call no roadmap column is the target of more than
\* IDEAS_PER_COLUMN = 3 items, however many scored items there are.
C9_ColumnCapacity ==
    \A c \in Range(ROADMAP_COLUMNS) : Cardinality(TargetedAt(c)) <= 3

\* The call is over, the items were more than the columns hold, and every
\* column was targeted by exactly three of them.
C9_Witness ==
    /\ pc = "slotted"
    /\ Len(slot_issues) > 3 * Len(ROADMAP_COLUMNS)
    /\ \A c \in Range(ROADMAP_COLUMNS) : Cardinality(TargetedAt(c)) = 3

TargetOfPosition(p) ==
    IF p \div 3 < Len(ROADMAP_COLUMNS) THEN ROADMAP_COLUMNS[(p \div 3) + 1]
    ELSE ROADMAP_BACKLOG_ID

IdeaRice(key) == RiceValue(ideas[key])

\* The ideas whose four RICE scores are set.
ScoredKeys ==
    {k \in DOMAIN ideas :
        ideas[k].reach # {} /\ ideas[k].impact # {} /\ ideas[k].confidence # {}
        /\ ideas[k].effort # {}}

\* The targets in rank order, the Backlog bucket last.
SlotTargets == Append(ROADMAP_COLUMNS, ROADMAP_BACKLOG_ID)

\* C10: at every moment of a slotting call the items passed so far are the
\* first idx of the slotted list, each with one target: the item at 0-based
\* position p is targeted at the column of rank floor(p / 3) when that is
\* below the number of columns and at the Backlog bucket otherwise; an item
\* is targeted at Backlog only when every column holds three; an accepted
\* or unneeded write leaves the idea in its target.  When the call is over,
\* the slotted list is the scored ideas, each once, no value below the next
\* one's; every item has a target; and no item has a smaller value than an
\* item targeted at a column of higher rank or at Backlog.
C10_PositionDeterminesTarget ==
    /\ Cardinality(CmdsOf("slot")) = idx
    /\ Len(cmds) = idx
    /\ idx <= Len(slot_issues)
    /\ \A p \in 0..(idx - 1) :
          /\ cmds[p + 1].op = "slot"
          /\ cmds[p + 1].issue = slot_issues[p + 1].key
          /\ cmds[p + 1].target = TargetOfPosition(p)
    /\ Cardinality({slot_issues[p].key : p \in DOMAIN slot_issues}) = Len(slot_issues)
    /\ TargetedAt(ROADMAP_BACKLOG_ID) # {} =>
          \A c \in Range(ROADMAP_COLUMNS) : Cardinality(TargetedAt(c)) = 3
    /\ \A i \in CmdsOf("slot") :
          cmds[i].ok => ideas[cmds[i].issue].roadmap = cmds[i].target
    /\ pc = "slotted" =>
          /\ {slot_issues[p].key : p \in DOMAIN slot_issues} = ScoredKeys
          /\ \A p \in 1..(Len(slot_issues) - 1) :
                ~RatLess(IdeaRice(slot_issues[p].key), IdeaRice(slot_issues[p + 1].key))
          /\ idx = Len(slot_issues)
          /\ \A r1, r2 \in DOMAIN SlotTargets :
                r1 < r2 =>
                    \A i \in TargetedAt(SlotTargets[r1]), j \in TargetedAt(SlotTargets[r2]) :
                        ~RatLess(IdeaRice(cmds[i].issue), IdeaRice(cmds[j].issue))

\* The call is over; the store returned the ideas in another order than the
\* slotted one; two ideas differ in value; one idea went to Backlog and one
\* was already in its column.
C10_Witness ==
    /\ pc = "slotted"
    /\ \E p, q \in DOMAIN slot_issues : p < q /\ slot_issues[p].key > slot_issues[q].key
    /\ \E p, q \in DOMAIN slot_issues :
          RatLess(IdeaRice(slot_issues[q].key), IdeaRice(slot_issues[p].key))
    /\ TargetedAt(ROADMAP_BACKLOG_ID) # {}
    /\ \E i \in CmdsOf("slot") : ~cmds[i].put /\ cmds[i].target # ROADMAP_BACKLOG_ID

\* C11: the slotter sends a write of the roadmap column for an item exactly
\* when the column the item was fetched in differs from its target (a column
\* or the Backlog bucket); an item already in its target causes no write.
C11_WriteIffColumnDiffers ==
    \A i \in CmdsOf("slot") :
        \A p \in DOMAIN slot_issues :
            slot_issues[p].key = cmds[i].issue =>
                (cmds[i].put <=> slot_issues[p].roadmap # cmds[i].target)

\* The call is over; one item was left alone in its column, one was left
\* alone in Backlog, one was written to a column and one to Backlog.
C11_Witness ==
    /\ pc = "slotted"
    /\ \E i \in CmdsOf("slot") : ~cmds[i].put /\ cmds[i].target = ROADMAP_COLUMNS[1]
    /\ \E i \in CmdsOf("slot") : ~cmds[i].put /\ cmds[i].target = ROADMAP_BACKLOG_ID
    /\ \E i \in CmdsOf("slot") : cmds[i].put /\ cmds[i].target = ROADMAP_COLUMNS[2]
    /\ \E i \in CmdsOf("slot") : cmds[i].put /\ cmds[i].target = ROADMAP_BACKLOG_ID

(***************************************************************************)
(* Claims about the rank sequencer.                                        *)
(***************************************************************************)
RankedSprintSize == Cardinality({k \in DOMAIN tickets : tickets[k].sprint = 1})

\* C12: for a target order keys of n tickets the sequencer sends, in this
\* order, the moves (k(n-2) before k(n-1)), ..., (k0 before k1), n - 1 of
\* them when it is over; for fewer than two tickets it sends none and ends.
C12_MovesEmitted ==
    /\ RankedSprintSize < 2 => cmds = <<>> /\ keys = <<>>
    /\ \A j \in DOMAIN cmds :
          /\ cmds[j].op = "rank"
          /\ j <= Len(keys) - 1
          /\ cmds[j].issue = keys[Len(keys) - j]
          /\ cmds[j].before = keys[Len(keys) - j + 1]
    /\ pc = "ranked" /\ RankedSprintSize >= 2 =>
          /\ Len(keys) = RankedSprintSize
          /\ {keys[i] : i \in DOMAIN keys} = {k \in DOMAIN tickets : tickets[k].sprint = 1}
          /\ Len(cmds) = Len(keys) - 1

\* Three tickets were ranked with two moves, one of them rejected.
C12_Witness ==
    /\ pc = "ranked"
    /\ Len(keys) = 3 /\ Len(cmds) = 2
    /\ \E j \in DOMAIN cmds : ~cmds[j].ok

\* A sprint of one ticket was ranked without a move.
C12_WitnessSingle == pc = "ranked" /\ RankedSprintSize = 1 /\ cmds = <<>>

\* The backlog positions the pointer has passed without a move being sent:
\* the tickets skipped as too large for what was left in the sprint.
SkippedPositions ==
    {q \in 1..idx : q <= Len(backlog)
                     /\ \A i \in CmdsOf("move") : cmds[i].issue # backlog[q].key}

C13_Step ==
    /\ idx' >= idx
    /\ \A q \in SkippedPositions :
          /\ \A i \in DOMAIN cmds' : cmds'[i].issue # backlog[q].key
          /\ tickets'[backlog[q].key].sprint = tickets[backlog[q].key].sprint

\* C13: in an allocation pass the backlog pointer never moves backwards, and
\* a ticket the pointer has skipped is never moved to a sprint afterwards.
C13_PointerNeverBack == [][C13_Step]_vars

\* The pass is over, a ticket was skipped in the first sprint, and the second
\* sprint, to which nothing was assigned, has room for it.
C13_Witness ==
    /\ pc = "allocated"
    /\ Len(future_sprints) >= 2
    /\ AssignedPoints(future_sprints[2].id) = 0
    /\ \E q \in SkippedPositions :
          /\ tickets[backlog[q].key].sprint = 0
          /\ PointsOf(tickets[backlog[q].key]) <= RemainingCapacity(future_sprints[2].id)

\* The place of a sprint in the list the allocator walks, earliest start first.
SprintPlace(sid) == CHOOSE p \in DOMAIN future_sprints : future_sprints[p].id = sid
BacklogPlace(key) == CHOOSE q \in DOMAIN backlog : backlog[q].key = key
AcceptedMoves == {i \in CmdsOf("move") : cmds[i].ok}

\* C14: of two tickets assigned in the same allocation pass, the one earlier
\* in the sorted backlog is in the same sprint as the later one or in an
\* earlier sprint.
C14_PriorityOrderKept ==
    \A i, j \in AcceptedMoves :
        BacklogPlace(cmds[i].issue) < BacklogPlace(cmds[j].issue) =>
            SprintPlace(cmds[i].sprint) <= SprintPlace(cmds[j].sprint)

\* The pass is over; two tickets went to the first sprint and a ticket later
\* in the backlog went to the second.
C14_Witness ==
    /\ pc = "allocated"
    /\ \E i, j, k \in AcceptedMoves :
          /\ BacklogPlace(cmds[i].issue) < BacklogPlace(cmds[j].issue)
          /\ BacklogPlace(cmds[j].issue) < BacklogPlace(cmds[k].issue)
          /\ SprintPlace(cmds[i].sprint) = 1 /\ SprintPlace(cmds[j].sprint) = 1
          /\ SprintPlace(cmds[k].sprint) = 2

ZeroPoints(q) == OrElse(Get(backlog[q], "customfield_10016"), 0) = 0
Assigned(key) == \E i \in AcceptedMoves : cmds[i].issue = key
AllMovesAccepted == \A i \in CmdsOf("move") : cmds[i].ok

\* C15 as stated: a backlog ticket of no points is assigned in the pass
\* whenever the pointer stood at it while a sprint was being filled or was
\* still to be visited, the store accepting every move.  At the end of a pass
\* over at least one sprint the pointer has stood so at every position up to
\* and including the one it ends at.
C15_ZeroAlwaysFits ==
    pc = "allocated" /\ AllMovesAccepted /\ Len(future_sprints) >= 1 =>
        \A q \in DOMAIN backlog :
            q <= idx + 1 /\ ZeroPoints(q) => Assigned(backlog[q].key)

C15_FitsStep ==
    pc = "filling" /\ idx < Len(backlog) =>
        /\ avail > 0 /\ ZeroPoints(idx + 1) =>
              /\ idx' = idx + 1
              /\ Len(cmds') = Len(cmds) + 1
              /\ cmds'[Len(cmds')].op = "move"
              /\ cmds'[Len(cmds')].issue = backlog[idx + 1].key
              /\ cmds'[Len(cmds')].sprint = future_sprints[sprint_pos].id
        /\ avail <= 0 => idx' = idx /\ cmds' = cmds /\ sprint_pos' = sprint_pos + 1

\* C15, amended: a ticket of no points at the pointer is moved to the sprint
\* being filled whenever the points the allocator still has for that sprint
\* are above 0; when they are exactly 0 the allocator leaves the sprint with
\* the pointer on the ticket, which goes to the next sprint or, when none is
\* left, stays unassigned.  With every move accepted, a ticket of no points
\* the pointer has passed is assigned, and one it ends on is not.
C15_ZeroFitsWhileRoom ==
    /\ [][C15_FitsStep]_vars
    /\ [](pc = "allocated" /\ AllMovesAccepted =>
            \A q \in DOMAIN backlog :
                ZeroPoints(q) => (Assigned(backlog[q].key) <=> q <= idx))

\* The first sprint was filled to exactly 0 with the pointer on a ticket of
\* no points, and the ticket went to the second sprint.
C15_Witness ==
    /\ pc = "allocated" /\ AllMovesAccepted
    /\ Len(future_sprints) >= 2
    /\ \E q \in DOMAIN backlog :
          /\ ZeroPoints(q)
          /\ tickets[backlog[q].key].sprint = future_sprints[2].id
          /\ AssignedPoints(future_sprints[1].id) = MAX_SPRINT_POINTS

(***************************************************************************)
(* Claims about the sprint runway.                                         *)
(***************************************************************************)
CreatesAccepted == {i \in CmdsOf("create") : cmds[i].ok}
CreatesRejected == {i \in CmdsOf("create") : ~cmds[i].ok}

\* The future sprints on the board when ensure_sprint_runway was entered.
EntryCount == Len(SprintsInState("future")) - Cardinality(CreatesAccepted)

\* C16 as stated: the returned list holds max(count on entry, 8) future
\* sprints, and no sprint is created when the count on entry is 8 or more.
C16_RunwayCount ==
    pc = "runway_done" =>
        /\ Len(future_sprints) = (IF EntryCount >= 8 THEN EntryCount ELSE 8)
        /\ EntryCount >= 8 => CmdsOf("create") = {}

\* C16, amended: with 8 future sprints or more on entry nothing is created
\* and the list is returned as it was; otherwise exactly 8 - count creations
\* are sent, one try each, and the returned list holds the count on entry
\* plus the creations the store accepted: 8 when it accepted them all, one
\* less for each it rejected.  The list is the board's future sprints in
\* ascending start date.
C16_RunwayCountAccepted ==
    pc = "runway_done" =>
        /\ EntryCount >= 8 =>
              CmdsOf("create") = {} /\ Len(future_sprints) = EntryCount
        /\ EntryCount < 8 =>
              /\ Cardinality(CmdsOf("create")) = 8 - EntryCount
              /\ Len(future_sprints) = 8 - Cardinality(CreatesRejected)
        /\ Len(future_sprints) = Len(SprintsInState("future"))
        /\ {future_sprints[i].id : i \in DOMAIN future_sprints}
              = {sprints[i].id : i \in {j \in DOMAIN sprints : sprints[j].state = "future"}}
        /\ \A i \in 1..(Len(future_sprints) - 1) :
              future_sprints[i].startDate <= future_sprints[i + 1].startDate

\* A runway that was short on entry came back with eight sprints, every
\* creation accepted.
C16_Witness ==
    /\ pc = "runway_done"
    /\ EntryCount < 8 /\ EntryCount > 0
    /\ CreatesRejected = {}
    /\ Len(future_sprints) = 8

\* A runway of nine sprints came back untouched.
C16_WitnessNoOp == pc = "runway_done" /\ EntryCount = 9 /\ cmds = <<>>

\* The sprints that were on the board on entry: those the runway did not add.
EntrySprints == {i \in DOMAIN sprints : i <= Len(sprints) - Cardinality(CreatesAccepted)}

EntryLatestEnd ==
    IF EntrySprints = {} THEN today
    ELSE CHOOSE e \in {sprints[i].endDate : i \in EntrySprints} :
            \A i \in EntrySprints : sprints[i].endDate <= e

\* C17: every sprint the runway generates starts on a Tuesday strictly after
\* lastEnd + 1 and at most 7 days after it, and ends 13 days after its
\* start; lastEnd is the latest end date among the future and active sprints
\* on entry (today when there is none) for the first generated sprint and the
\* end of the previous generated sprint for each later one.  A sprint the
\* store accepted is on the board with these dates.
C17_GeneratedDates ==
    \A j \in CmdsOf("create") :
        LET lastEnd == IF j = 1 THEN EntryLatestEnd ELSE cmds[j - 1].endDate
        IN /\ cmds[j].startDate % 7 = 1
           /\ cmds[j].startDate > lastEnd + 1
           /\ cmds[j].startDate <= lastEnd + 1 + 7
           /\ cmds[j].endDate = cmds[j].startDate + 13
           /\ cmds[j].ok =>
                 \E i \in DOMAIN sprints :
                     /\ i \notin EntrySprints
                     /\ sprints[i].state = "future"
                     /\ sprints[i].startDate = cmds[j].startDate
                     /\ sprints[i].endDate = cmds[j].endDate

\* The runway is done; the day after the latest end on entry was a Tuesday
\* and the first generated sprint starts a full week later; a later sprint
\* follows a generated one.
C17_Witness ==
    /\ pc = "runway_done"
    /\ Cardinality(CmdsOf("create")) >= 2
    /\ EntrySprints # {}
    /\ (EntryLatestEnd + 1) % 7 = 1
    /\ cmds[1].startDate = EntryLatestEnd + 8

(***************************************************************************)
(* Claims about the RICE value.                                            *)
(***************************************************************************)
Clamp(opt) ==
    IF opt = {} THEN 1
    ELSE LET v == CHOOSE x \in opt : TRUE
         IN IF v < 1 THEN 1 ELSE IF v > 5 THEN 5 ELSE v

ClampedRice(f) == <<Clamp(f.reach) * Clamp(f.impact) * Clamp(f.confidence), Clamp(f.effort)>>

\* C18: the RICE value the engine keeps for an idea is reach * impact *
\* confidence / effort on the factors clamped to [1, 5], whatever integers
\* the fields hold, and so lies between 1/5 and 125.
C18_ClampedRice ==
    \A k \in DOMAIN EPIC_ROADMAP_RANK :
        \A i \in DOMAIN ideas :
            ideas[i].epic = k =>
                /\ RatEq(EPIC_ROADMAP_RANK[k][2], ClampedRice(ideas[i]))
                /\ ~RatLess(EPIC_ROADMAP_RANK[k][2], <<1, 5>>)
                /\ ~RatLess(<<125, 1>>, EPIC_ROADMAP_RANK[k][2])

(***************************************************************************)
(* Claims about repeated passes.                                           *)
(***************************************************************************)
\* What a pass can change on the board: the sprints, the sprint of each
\* ticket, the roadmap column of each idea, the rank order.
Board ==
    <<sprints, [k \in DOMAIN tickets |-> tickets[k].sprint],
      [k \in DOMAIN ideas |-> ideas[k].roadmap], rankList>>

\* C19: a second pass, run right after a first one with today the same and
\* every command accepted, changes nothing on the board.
C19_SecondPassChangesNothing ==
    [][(run_no = 1 /\ \A i \in DOMAIN cmds' : cmds'[i].ok) => Board' = Board]_vars

\* C20: over any sequence of passes a sprint's state changes only from
\* future to active and from active to closed: a closed sprint stays
\* closed, an active one never becomes future again, a future one is
\* never closed.
C20_Step ==
    \A i \in DOMAIN sprints :
        /\ i \in DOMAIN sprints'
        /\ sprints'[i].state # sprints[i].state =>
               <<sprints[i].state, sprints'[i].state>>
                   \in {<<"future", "active">>, <<"active", "closed">>}

C20_StateOrder == [][C20_Step]_vars

\* A sprint that was future on the board, started by one pass and closed
\* by the next.
C20_Witness ==
    \E i \in DOMAIN sprints :
        /\ sprints[i].state = "closed"
        /\ \E a \in DOMAIN cmds : \E b \in DOMAIN cmds :
              /\ a < b
              /\ cmds[a].op = "start" /\ cmds[a].sprint = i /\ cmds[a].ok
              /\ cmds[b].op = "close" /\ cmds[b].sprint = i /\ cmds[b].ok

(***************************************************************************)
(* Claims about rejected commands.                                         *)
(***************************************************************************)
\* In the loop of rank_issues the next step sends the move of the ticket
\* at idx before the ticket at idx + 1 and goes on to idx - 1, the target
\* order staying as it is, whatever the store answered so far and answers
\* now.
C21_Step ==
    pc = "ranking" /\ idx >= 0 =>
        /\ Len(cmds') = Len(cmds) + 1
        /\ SubSeq(cmds', 1, Len(cmds)) = cmds
        /\ cmds'[Len(cmds')].op = "rank"
        /\ cmds'[Len(cmds')].issue = keys[idx + 1]
        /\ cmds'[Len(cmds')].before = keys[idx + 2]
        /\ idx' = idx - 1
        /\ keys' = keys
        /\ pc' = "ranking"

\* C21: ranking is best-effort: every one of the n - 1 moves is attempted,
\* in the same order and with the same ticket and anchor, whichever moves
\* the store rejects; a rejected move neither stops nor changes a later one.
C21_RankingBestEffort == [][C21_Step]_vars

\* The first move of three tickets was rejected and the second one was
\* sent all the same and accepted.
C21_Witness ==
    /\ pc = "ranked"
    /\ Len(keys) = 3 /\ Len(cmds) = 2
    /\ ~cmds[1].ok /\ cmds[2].ok
    /\ cmds[2].issue = keys[1] /\ cmds[2].before = keys[2]

\* The lines run() has logged, in order.
JobLines(log) ==
    LET lines == SelectSeq(log, LAMBDA c : c.op = "job")
    IN [i \in DOMAIN lines |-> lines[i].name]

\* The step sent a command that the store rejected.
Rejected ==
    /\ Len(cmds') = Len(cmds) + 1
    /\ ~cmds'[Len(cmds')].ok

C22_Step ==
    /\ Rejected =>
          /\ <<tickets', sprints', ideas', rankList'>> = <<tickets, sprints, ideas, rankList>>
          /\ SubSeq(cmds', 1, Len(cmds)) = cmds
          /\ pc' # "pass_done"
          /\ pc = "filling" =>
                /\ avail' = avail
                /\ idx' = idx + 1
                /\ sprint_pos' = sprint_pos
                /\ pc' = "filling"
    /\ pc' = "pass_done" =>
          JobLines(cmds') = <<"JOB 0", "JOB 1", "JOB 15", "JOB 2", "JOB 3", "JOB 4",
                              "Run complete">>

PassPlaces ==
    RaisingPlaces
    \cup {"pass_board", "lifecycle_done", "runway_done", "cached", "allocated", "ranked"}

C23_Step ==
    \* a pass ends at the end of run() or in its except clause
    /\ pc \in PassPlaces => pc' \in PassPlaces \cup {"pass_done", "run_failed"}
    \* the exception skips what is left of the pass and undoes nothing
    /\ pc' = "run_failed" =>
          /\ pc \in RaisingPlaces
          /\ <<tickets', sprints', ideas', rankList'>> = <<tickets, sprints, ideas, rankList>>
          /\ cmds' = Append(cmds, JobLine("Run failed"))
    \* after it nothing happens until the next pass starts
    /\ pc = "run_failed" =>
          /\ pc' = "pass_board"
          /\ <<tickets', sprints', ideas', rankList', cmds'>>
                = <<tickets, sprints, ideas, rankList, cmds>>
    \* the next pass reads the board again before it uses what it read
    /\ pc = "job0" /\ pc' = "closing" =>
          active' = get_active_sprint /\ carryover' = <<>>
    /\ pc = "job1" /\ pc' \in {"creating", "runway_done"} =>
          future_sprints' = get_future_sprints
    /\ pc = "job2" /\ pc' \in {"next_sprint", "allocated"} =>
          backlog' = SortedBacklog(ReadyBacklogIssues) /\ idx' = 0

C24_BudgetOverPasses ==
    \A s \in DOMAIN sprints :
        sprints[s].state = "future" => AssignedPoints(s) <= MAX_SPRINT_POINTS

(***************************************************************************)
(* Claims about the active sprint over the passes.                         *)
(***************************************************************************)
ActiveCount == Cardinality({i \in DOMAIN sprints : sprints[i].state = "active"})

\* C25: from any board, with zero or several active sprints, under passes
\* on advancing days whose commands the store accepts, from some pass on
\* exactly one sprint is active at the end of every pass.
C25_SelfCorrects == <>[](pc = "runway_done" => ActiveCount = 1)

\* A pass has ended with exactly one active sprint on a board that had
\* several: two sprints were closed and one was started.
C25_Witness ==
    /\ pc = "runway_done" /\ ActiveCount = 1
    /\ Cardinality({i \in CmdsOf("close") : cmds[i].ok}) >= 2
    /\ \E i \in CmdsOf("start") : cmds[i].ok

(***************************************************************************)
(* Claims about the order of the fetched ideas.                            *)
(***************************************************************************)
\* The target of every idea when the search returns the list fetched: the
\* list is sorted as the code sorts it and the idea at 0-based position p
\* gets the target of that position.
TargetsFor(fetched) ==
    LET sorted == SortByRiceDescending(fetched)
    IN [k \in {sorted[p].key : p \in DOMAIN sorted} |->
          TargetOfPosition((CHOOSE p \in DOMAIN sorted : sorted[p].key = k) - 1)]

\* C26: the target of an item depends on the set of scored items only:
\* whatever the order in which the items come, equal values included, the
\* call gives every item the target it gets for any other order.
C26_OrderIndependent ==
    pc = "slotted" =>
        \A fetched \in ScoredIdeaLists : \A i \in CmdsOf("slot") :
            cmds[i].target = TargetsFor(fetched)[cmds[i].issue]

(***************************************************************************)
(* Claims about the tickets of a closed sprint.                            *)
(***************************************************************************)
\* The sprints this pass has closed.
ClosedInPass == {cmds[i].sprint : i \in {j \in CmdsOf("close") : cmds[j].ok}}

\* C27: when the lifecycle is over, every command was accepted and some
\* sprint is active, no ticket that is neither Done nor Released is left
\* in a sprint closed in this pass.
C27_NoIncompleteLeftBehind ==
    (pc = "lifecycle_done" /\ AllAccepted
       /\ \E i \in DOMAIN sprints : sprints[i].state = "active") =>
        \A k \in DOMAIN tickets :
            Incomplete(tickets[k]) => tickets[k].sprint \notin ClosedInPass

(***************************************************************************)
(* Claims about the two swimlanes.                                         *)
(***************************************************************************)
\* C28: when both slotting calls of a pass are over and every write was
\* accepted, no roadmap column holds more than IDEAS_PER_COLUMN = 3 scored
\* ideas, the ideas of both swimlanes counted together.
C28_ColumnCapacityOverall ==
    (pc = "slotted" /\ AllAccepted /\ \E i \in DOMAIN cmds : cmds[i].op = "job") =>
        \A c \in Range(ROADMAP_COLUMNS) :
            Cardinality({k \in DOMAIN ideas : ideas[k].roadmap = c}) <= IDEAS_PER_COLUMN

(***************************************************************************)
(* Claims about the number of active sprints over passes.                  *)
(***************************************************************************)
\* C29: from a board with at most one active sprint, over any number of
\* passes and whichever commands the store rejects or whichever step
\* raises, at most one sprint is active at every point: a sprint is started
\* only when the second read shows no active sprint.
C29_AtMostOneActive == ActiveCount <= 1

\* The first pass had its close rejected and started nothing; the second
\* pass closed the sprint and started the next one.
C29_Witness ==
    /\ pc = "pass_done" /\ run_no = 1
    /\ ActiveCount = 1
    /\ \E i, j, k \in DOMAIN cmds :
          /\ i < j /\ j < k
          /\ cmds[i].op = "close" /\ ~cmds[i].ok
          /\ cmds[j].op = "close" /\ cmds[j].ok
          /\ cmds[k].op = "start" /\ cmds[k].ok

(***************************************************************************)
(* Claims about the spacing of the generated sprints.                      *)
(***************************************************************************)
\* C30: the sprints generated in one call of the runway overlap neither
\* each other nor a sprint that was on the board on entry: the first starts
\* 2 to 8 days after the latest end on entry, each later one starts exactly
\* 21 days after the start and 8 days after the end of the one generated
\* before it, whether the store accepted or rejected that one.
C30_GeneratedSpacing ==
    \A j \in CmdsOf("create") :
        /\ j = 1 => cmds[j].startDate - EntryLatestEnd \in 2..8
        /\ j > 1 => /\ cmds[j].startDate = cmds[j - 1].startDate + 21
                    /\ cmds[j].startDate = cmds[j - 1].endDate + 8
        /\ \A i \in CmdsOf("create") :
               i < j => cmds[i].endDate < cmds[j].startDate
        /\ \A i \in EntrySprints : sprints[i].endDate < cmds[j].startDate

\* The latest end on entry was a Sunday, so the first generated sprint
\* starts 2 days after it; its creation was rejected and two more followed,
\* the first of them accepted.
C30_Witness ==
    /\ pc = "runway_done"
    /\ Cardinality(CmdsOf("create")) >= 3
    /\ EntrySprints # {}
    /\ cmds[1].startDate = EntryLatestEnd + 2
    /\ ~cmds[1].ok /\ cmds[2].ok

====
